---- MODULE Spec2Model ----
(***************************************************************************)
(* Liquidation-reversion trading engine: the strategy core of the bot      *)
(* (railway-bot/src/strategies/liquidation-reversion.ts), the market feed  *)
(* cache it reads, and the dashboard's control endpoints                   *)
(* (server/routes.ts) that write the shared bot_states row.                *)
(*                                                                         *)
(* Every async handler is split at its awaits: the code between two awaits *)
(* runs atomically on the single JS thread and is one action.  A database  *)
(* write takes effect in the step that issues it; the code after the await *)
(* is a later step, so other handlers interleave in between.               *)
(*                                                                         *)
(* Units.  Time is counted in ticks, TicksPerSec ticks to the second       *)
(* (Date.now() is milliseconds in the code).  Prices are integers; entry   *)
(* prices carry PriceScale extra digits so that the paper slippage of a    *)
(* few basis points is exact.  Percentages are basis points (1/10000).     *)
(* Quantities are floored to 1/QtyScale, USDT amounts are in               *)
(* 1/(PriceScale*QtyScale) USDT.                                           *)
(***************************************************************************)
EXTENDS Integers, Sequences, FiniteSets, TLC

\* ---- bounds of the model ------------------------------------------------
MaxTime == 3
ExtraLiq == 1
MaxHandlers == 2
MaxExits == 2
\* storage.updateConfig calls in flight at a time, and in all
MaxPublishers == 2
MaxPublish == 4
\* dashboard control requests in flight at a time
MaxRequests == 1
\* samples the volume window keeps (1000 in part_006:394) and samples the
\* recent volume is taken over (60 s * 10 = 600 in part_006:138, 410)
volumeWindowSize == 3
recentSamples == 2

\* ---- units ---------------------------------------------------------------
TicksPerSec == 1
\* length of the UTC day of the Risk Day, in ticks
DayTicks == 2
PriceScale == 1000
QtyScale == 10000
BpsScale == 10000

\* ---- Config (part_006:15-31), values inside the ranges of configSchema ---
Symbols == {"BTCUSDT"}
riskPerTradeBps == 100
dailyMaxLossBps == 50
volumeMultX100 == 200
symbolCooldownSeconds == 1
tpBps == 35
slBps == 45
timeStopSeconds == 1
\* the age, in seconds, past which a book ticker is stale
StaleBookSeconds == 2
minLiqUsdK == [s \in Symbols |-> IF s = "BTCUSDT" THEN 2500 ELSE 1250]
maxSpreadBps == [s \in Symbols |-> IF s = "BTCUSDT" THEN 3 ELSE 4]
pauseAfterConsecutiveLossesSeconds == 1

\* starting equity in USDT
equity == 1400

\* consecutive failed exits after which the bot is to report ERROR
exitEscalation == 5
Unobserved == -1

\* ---- BinanceWebSocket (binance-ws.ts:34-35) -------------------------------
maxReconnectAttempts == 10
\* base of the reconnect backoff, in seconds (1000 ms)
reconnectDelay == 1

\* ---- inputs ----------------------------------------------------------------
\* last trade / mid prices the feed can report
Prices == {2000, 2010}
NoPrice == 0
\* simulated paper slippage, in basis points (0.01% .. 0.03%)
Slippage == {1, 3}
Sides == {"BUY", "SELL"}

\* Raw gate inputs read from the feed caches when a liquidation arrives:
\* usdK = liquidation notional in thousands, volX100 = recent/average volume
\* times 100, deltaX100 = price delta in hundredths of a percent.
GoodSnap == [usdK |-> 3000, volX100 |-> 250, spreadBps |-> 2,
             deltaX100 |-> 10, exhaustionCandles |-> 2]
Snapshots == { GoodSnap,
               [GoodSnap EXCEPT !.usdK = 1000],
               [GoodSnap EXCEPT !.volX100 = 100],
               [GoodSnap EXCEPT !.spreadBps = 6],
               [GoodSnap EXCEPT !.deltaX100 = -80],
               [GoodSnap EXCEPT !.exhaustionCandles = 0] }

VARIABLES
  now,                \* Date.now(), in ticks
  prices,             \* BinanceWebSocket.prices
  isPaused, isLive, openTrade, symbolCooldowns,
  todayPnl, todayTradeCount, consecutiveLosses,
  status,             \* bot_states.status (shared database row)
  dbMode,             \* bot_states.trading_mode (shared database row)
  tradingMode,        \* main()'s local copy of the trading mode
  trades,             \* table trades, row id = index
  events,             \* table market_events, row id = index
  liq,                \* in-flight onLiquidation calls
  exits,              \* in-flight exitTrade calls
  config,             \* this.config: the limits of the Risk Governor
  riskPausedAt,       \* history: time of the last PAUSED_RISK_LIMIT write, -1 if none
  proc,               \* the bot process: running, in its signal handler, or exited
  response,           \* the dashboard's answer to the last control request
  resumePc,           \* POST /api/control/resume in flight
  pausePc,            \* POST /api/control/pause in flight
  flattenPc,          \* POST /api/control/flatten in flight
  repeated,           \* history: "pause" once a pause was answered directly after a pause
  modeRequest,        \* POST /api/control/trading-mode: idle, or the row it has read
  isConnected, reconnectAttempts,   \* BinanceWebSocket fields
  feedPc,             \* the feed socket: open, closed with a timer pending, connecting, given up
  delay,              \* seconds left on the pending reconnect timer, 0 if none
  waited,             \* history: seconds the pending reconnect timer has run
  disconnectCalled,   \* history: disconnect() has been called on the feed
  configRows,         \* table configs: the rows, row id = index
  publish,            \* in-flight storage.updateConfig calls
  published,          \* history: the versions stored by the updates so far
  publishAnswer,      \* the body and the status of the last answered publish
  venuePos,           \* the venue: net position on the symbol, in entry lots (+ long)
  exitFailures,       \* history: exitTrade calls in a row that ended in the catch,
                      \* or Unobserved where the run does not keep this record
  bookTickers,        \* BinanceWebSocket.bookTickers, or UnobservedBook where the
                      \* spread of the book is an input of the liquidation
  recentVolumes       \* LiquidationStrategy.recentVolumes, or UnobservedWindow where
                      \* the volume multiple is an input of the liquidation

vars == << now, prices, isPaused, isLive, openTrade, symbolCooldowns,
           todayPnl, todayTradeCount, consecutiveLosses, status, dbMode,
           tradingMode, trades, events, liq, exits, config, riskPausedAt,
           proc, response, resumePc, pausePc, flattenPc, repeated, modeRequest, isConnected, reconnectAttempts, feedPc, delay, waited, disconnectCalled,
           configRows, publish, published, publishAnswer, venuePos, exitFailures,
           bookTickers, recentVolumes >>

ctlVars == << response, resumePc, pausePc, flattenPc, repeated, modeRequest >>
feedVars == << isConnected, reconnectAttempts, feedPc, delay, waited, disconnectCalled >>
cfgVars == << configRows, publish, published, publishAnswer >>
envVars == << venuePos, exitFailures >>

NoTrade == [symbol |-> "-", entryPrice |-> 0, side |-> "-", entryTime |-> 0, tradeId |-> 0]

\* no trading-mode request is in flight
ModeIdle == [pc |-> "idle", mode |-> "-", status |-> "-"]

LiqIdle == [pc |-> "idle", symbol |-> "-", side |-> "-", eventId |-> 0,
            signalQualityPassed |-> FALSE, dailyLimitOk |-> FALSE,
            consecutiveLossOk |-> FALSE, dailyLossOk |-> FALSE,
            price |-> 0, tradeId |-> 0, avgPrice |-> 0]

ExitIdle == [pc |-> "idle", exitReason |-> "-", symbol |-> "-", entryPrice |-> 0,
             side |-> "-", entryTime |-> 0, tradeId |-> 0, exitPrice |-> 0,
             quantity |-> 0, pnlUsdt |-> 0]

\* entries of bookTickers: no ticker of the symbol has arrived yet, and the
\* entry of a run that does not follow the book
NoTicker == [state |-> "none", spreadBps |-> 0, timestamp |-> 0]
UnobservedBook == [state |-> "unobserved", spreadBps |-> 0, timestamp |-> 0]
\* the spread getSpreadBps answers when it finds no ticker (binance-ws.ts:173)
noTickerSpreadBps == 999
\* spreads of the book tickers that arrive, in basis points
BookSpreads == {2, 6}
\* the window of a run that does not follow the trades of the feed
UnobservedWindow == << Unobserved >>
\* quantity * price of the trades that arrive
Notionals == {1, 4}

Abs(x) == IF x < 0 THEN 0 - x ELSE x
Min(a, b) == IF a < b THEN a ELSE b
Max(a, b) == IF a < b THEN b ELSE a

ModeOf(live) == IF live THEN "live" ELSE "paper"

Running == [pc |-> "running", slot |-> 0]
\* process.exit has not been called
Alive == proc.pc \notin {"exited", "crashed"}
\* an exitTrade call returns; flatten() was awaiting it if it made the call
ProcAfterExit(x) ==
  IF proc.pc = "flattenExit" /\ proc.slot = x THEN [pc |-> "flattened", slot |-> 0] ELSE proc

\* ---- Configuration (shared/schema.ts:85-109, server/routes.ts:7-22) ----------
\* Values of the integer columns are counted in halves, fractions in 1/10000,
\* volume_mult in tenths and min_liq_usd in thousands, so that a bound, its
\* neighbours on both sides and a number that is not whole are integers here.
Half == 2
\* the integer(...) columns of table configs that the form fills
\* (shared/schema.ts:89-106)
IntegerColumns ==
  {"leverage", "max_trades_per_day", "max_consecutive_losses", "liq_window_seconds",
   "exhaustion_candles", "symbol_cooldown_seconds", "time_stop_seconds"}

\* configFormSchema: z.number().min(..).max(..) of every numeric field
FormBounds ==
  [leverage                |-> << 1 * Half, 3 * Half >>,
   risk_per_trade_pct      |-> << 10, 100 >>,
   daily_max_loss_pct      |-> << 50, 500 >>,
   max_trades_per_day      |-> << 1 * Half, 20 * Half >>,
   max_consecutive_losses  |-> << 1 * Half, 10 * Half >>,
   tp_pct                  |-> << 25, 45 >>,
   sl_pct                  |-> << 35, 50 >>,
   time_stop_seconds       |-> << 120 * Half, 180 * Half >>,
   liq_window_seconds      |-> << 30 * Half, 120 * Half >>,
   volume_mult             |-> << 15, 50 >>,
   exhaustion_candles      |-> << 1 * Half, 5 * Half >>,
   symbol_cooldown_seconds |-> << 60 * Half, 600 * Half >>]

\* configFormSchema.safeParse(req.body).success (routes.ts:138-139): min and max
\* are inclusive
formValid(f) ==
  \A k \in DOMAIN FormBounds : f[k] >= FormBounds[k][1] /\ f[k] <= FormBounds[k][2]

\* the maps that the route and the dashboard's reader write out
\* (routes.ts:166, 170; storage.ts:378, 382, 415, 419)
dashboardMinLiqUsd == [BTCUSDT |-> 2500, ETHUSDT |-> 1250]
dashboardMaxSpreadBps == [BTCUSDT |-> 3, ETHUSDT |-> 4]
\* the maps that the bot's loader writes out (part_005:125, 127, 146, 148)
loaderMinLiqUsd == [BTCUSDT |-> 2500, ETHUSDT |-> 1250, SOLUSDT |-> 500]
loaderMaxSpreadBps == [BTCUSDT |-> 3, ETHUSDT |-> 4, SOLUSDT |-> 5]

\* storage.ts:398-433; mode, symbols, max_margin_per_trade_pct,
\* use_market_if_not_filled and the feature flags are carried like
\* entry_fill_timeout_ms and are left out
getDefaultConfig ==
  [version                 |-> 1,
   leverage                |-> 2 * Half,
   risk_per_trade_pct      |-> 25,
   daily_max_loss_pct      |-> 150,
   max_trades_per_day      |-> 10 * Half,
   max_consecutive_losses  |-> 3 * Half,
   pause_after_consecutive_losses_minutes |-> 60 * Half,
   liq_window_seconds      |-> 60 * Half,
   min_liq_usd             |-> dashboardMinLiqUsd,
   volume_lookback         |-> 20 * Half,
   volume_mult             |-> 20,
   exhaustion_candles      |-> 2 * Half,
   max_spread_bps          |-> dashboardMaxSpreadBps,
   symbol_cooldown_seconds |-> 300 * Half,
   tp_pct                  |-> 35,
   sl_pct                  |-> 45,
   time_stop_seconds       |-> 150 * Half,
   entry_fill_timeout_ms   |-> 800 * Half]

\* the form as the dashboard shows it before the first publish: the numeric
\* fields of the default Configuration
BaseForm == [k \in DOMAIN FormBounds |-> getDefaultConfig[k]]

\* the values a publish tries for one field: each bound, the value next below
\* the minimum, next above it (half a unit for an integer column) and next
\* above the maximum
Probes(k) ==
  {FormBounds[k][1] - 1, FormBounds[k][1], FormBounds[k][1] + 1,
   FormBounds[k][2], FormBounds[k][2] + 1}

\* request bodies of POST /api/config/publish: the form with one field changed
Forms ==
  {BaseForm} \cup
  UNION {{[BaseForm EXCEPT ![k] = v] : v \in Probes(k)} : k \in DOMAIN FormBounds}

\* the bodies of publishes that run side by side
FewForms == {BaseForm, [BaseForm EXCEPT !["leverage"] = 3 * Half]}

PublishIdle == [pc |-> "idle", version |-> 0, existing |-> 0, form |-> BaseForm]
NoAnswer == [form |-> BaseForm, code |-> "none"]

\* ---- gate factors (onLiquidation, part_006:132-168) --------------------------
spreadOk(sym, snap) == snap.spreadBps <= maxSpreadBps[sym]
volumeOk(snap) == snap.volX100 >= volumeMultX100
liqSizeOk(sym, snap) == snap.usdK >= minLiqUsdK[sym]
momentumOk(snap) == Abs(snap.deltaX100) < 50
exhaustionOk(snap) == snap.exhaustionCandles >= 1

dailyLimitOk == todayTradeCount < config.maxTradesPerDay
consecutiveLossOk == consecutiveLosses < config.maxConsecutiveLosses
\* |min(0,todayPnl)| / equity < dailyMaxLossPct
dailyLossOk == Abs(Min(0, todayPnl)) < dailyMaxLossBps * equity * ((PriceScale * QtyScale) \div BpsScale)

signalQualityPassed(sym, snap) ==
  liqSizeOk(sym, snap) /\ volumeOk(snap) /\ spreadOk(sym, snap) /\ momentumOk(snap) /\ exhaustionOk(snap)
riskLimitsPassed(dl, cl, ls) == dl /\ cl /\ ls

allPassedSignalOnly(sq, rl) == sq
allPassed(sq, rl) == sq /\ rl

shouldPauseBoth(cl, ls) == ~cl /\ ~ls
shouldPauseAlways(cl, ls) == TRUE
\* part_006:200  if (!consecutiveLossOk || !dailyLossOk)
shouldPause(cl, ls) == ~cl \/ ~ls

\* ---- sizing and PnL ---------------------------------------------------------
\* quantity = equity*riskPerTradePct / (price*slPct), price given with PriceScale digits
Quantity(priceS) == (equity * riskPerTradeBps * QtyScale) \div ((priceS * slBps) \div PriceScale)

\* numerator of pnlPct; pnlPct = PnlNum / entryPrice
PnlNum(side, priceS, entryPrice) ==
  IF side = "LONG" THEN priceS - entryPrice ELSE entryPrice - priceS

\* the monitor knows no time stop
exitReasonNoTimeStop(pnlNum, entryPrice, elapsed) ==
  IF pnlNum * BpsScale >= tpBps * entryPrice THEN "TP"
  ELSE IF pnlNum * BpsScale <= (0 - slBps) * entryPrice THEN "SL"
  ELSE "NONE"
\* the time stop is looked at before the stop loss
exitReasonStopLast(pnlNum, entryPrice, elapsed) ==
  IF pnlNum * BpsScale >= tpBps * entryPrice THEN "TP"
  ELSE IF elapsed >= timeStopSeconds * TicksPerSec THEN "TIME_STOP"
  ELSE IF pnlNum * BpsScale <= (0 - slBps) * entryPrice THEN "SL"
  ELSE "NONE"
exitReasonTimeFirst(pnlNum, entryPrice, elapsed) ==
  IF elapsed >= timeStopSeconds * TicksPerSec THEN "TIME_STOP"
  ELSE IF pnlNum * BpsScale >= tpBps * entryPrice THEN "TP"
  ELSE IF pnlNum * BpsScale <= (0 - slBps) * entryPrice THEN "SL"
  ELSE "NONE"
\* part_006:307-313; elapsed = Date.now() - entryTime
exitReasonFor(pnlNum, entryPrice, elapsed) ==
  IF pnlNum * BpsScale >= tpBps * entryPrice THEN "TP"
  ELSE IF pnlNum * BpsScale <= (0 - slBps) * entryPrice THEN "SL"
  ELSE IF elapsed >= timeStopSeconds * TicksPerSec THEN "TIME_STOP"
  ELSE "NONE"

\* the win and loss counts updateMetrics writes to the metrics row
\* (part_006:491-492, 506-507)
todayWinCount == IF todayPnl > 0 THEN 1 ELSE 0
todayLossCount == IF todayPnl < 0 THEN 1 ELSE 0

\* part_006:373-377
nextConsecutiveLosses(pnlUsdt, c) == IF pnlUsdt >= 0 THEN 0 ELSE c + 1

LowestIdle(f, S) == CHOOSE i \in S : f[i].pc = "idle" /\ \A j \in S : f[j].pc = "idle" => i <= j
HasIdle(f, S) == \E i \in S : f[i].pc = "idle"

\* ---- Init: the state after start() --------------------------------------------
InitObserving(liveSet, nHandlers, nExits, cfg, failures, book, window) ==
  /\ now = 0
  /\ prices = [s \in Symbols |-> 2000]
  /\ isPaused = FALSE
  /\ isLive \in liveSet
  /\ openTrade = NoTrade
  /\ symbolCooldowns = [s \in Symbols |-> 0]
  /\ todayPnl = 0
  /\ todayTradeCount = 0
  /\ consecutiveLosses = 0
  /\ status = "RUNNING"
  /\ dbMode = ModeOf(isLive)
  /\ tradingMode = ModeOf(isLive)
  /\ trades = << >>
  /\ events = << >>
  /\ liq = [h \in 1..nHandlers |-> LiqIdle]
  /\ exits = [x \in 1..nExits |-> ExitIdle]
  /\ config = cfg
  /\ riskPausedAt = -1
  /\ proc = Running
  /\ response = "none"
  /\ resumePc = "idle"
  /\ pausePc = "idle"
  /\ flattenPc = "idle"
  /\ repeated = {}
  /\ modeRequest = ModeIdle
  /\ isConnected = TRUE
  /\ reconnectAttempts = 0
  /\ feedPc = "open"
  /\ delay = 0
  /\ waited = 0
  /\ disconnectCalled = FALSE
  /\ configRows = << >>
  /\ publish = [r \in 1..MaxPublishers |-> PublishIdle]
  /\ published = << >>
  /\ publishAnswer = NoAnswer
  /\ venuePos = 0
  /\ exitFailures = failures
  /\ bookTickers = [s \in Symbols |-> book]
  /\ recentVolumes = [s \in Symbols |-> window]

\* main() awaits its first ws.connect() (part_005:40-58): the bot-state row
\* still holds its default BOOTING (shared/schema.ts:8), the socket is being
\* opened and no strategy exists yet
Booting == [pc |-> "booting", slot |-> 0]
Connected == [pc |-> "connected", slot |-> 0]

InitWith(liveSet, nHandlers, nExits, cfg, failures) ==
  InitObserving(liveSet, nHandlers, nExits, cfg, failures, UnobservedBook, UnobservedWindow)

InitOf(liveSet, nHandlers, nExits, cfg) ==
  InitWith(liveSet, nHandlers, nExits, cfg, Unobserved)

\* the record of failed exits after one more failure, and after a completed exit
exitFailed == IF exitFailures = Unobserved THEN Unobserved
              ELSE Min(exitFailures + 1, exitEscalation)
exitDone == IF exitFailures = Unobserved THEN Unobserved ELSE 0


\* ---- the feed ----------------------------------------------------------------
\* Some deadline is running: an open position (time stop), an entry whose insert
\* is in flight, a symbol cooldown, or a risk pause that has not yet outlasted
\* pauseAfterConsecutiveLossesSeconds.  Only then does the value of Date.now()
\* make a difference to the program.
ClockMatters ==
  \/ openTrade # NoTrade
  \/ \E s \in Symbols : /\ bookTickers[s].state = "set"
                        /\ now - bookTickers[s].timestamp <= StaleBookSeconds * TicksPerSec
  \/ \E h \in DOMAIN liq : liq[h].pc = "inserted"
  \/ \E s \in Symbols : now < symbolCooldowns[s]
  \/ (riskPausedAt # -1 /\ now <= riskPausedAt + pauseAfterConsecutiveLossesSeconds * TicksPerSec)

\* Date.now() advances
Tick ==
  /\ now < MaxTime
  /\ ClockMatters
  /\ now' = now + 1
  /\ UNCHANGED << prices, isPaused, isLive, openTrade, symbolCooldowns, todayPnl,
                  todayTradeCount, consecutiveLosses, status, dbMode, tradingMode,
                  trades, events, liq, exits, config, riskPausedAt >>
  /\ UNCHANGED << proc, ctlVars, feedVars, cfgVars, bookTickers, recentVolumes, envVars >>

\* The strategy is about to read the price of sym: an entry is being decided
\* or a position on sym is monitored.  Frames for other symbols change nothing
\* the program reads before the next frame.
PriceWatched(sym) ==
  \/ openTrade.symbol = sym
  \/ \E h \in DOMAIN liq : liq[h].pc \in {"logged", "ordering"} /\ liq[h].symbol = sym

\* handleMessage, aggTrade / bookTicker frame: prices.set(symbol, price)
handleMessagePrice(sym, p) ==
  /\ Alive
  /\ isConnected
  /\ prices[sym] # p
  /\ PriceWatched(sym)
  /\ prices' = [prices EXCEPT ![sym] = p]
  /\ UNCHANGED << now, isPaused, isLive, openTrade, symbolCooldowns, todayPnl,
                  todayTradeCount, consecutiveLosses, status, dbMode, tradingMode,
                  trades, events, liq, exits, config, riskPausedAt >>
  /\ UNCHANGED << proc, ctlVars, feedVars, cfgVars, bookTickers, recentVolumes, envVars >>

\* ---- onLiquidation -------------------------------------------------------------
\* The row logMarketEvent inserts (part_006:186-196, 422-448)
MarketEvent(sym, snap, dl, cl, ls) ==
  [ symbol |-> sym,
    liqSizeOk |-> liqSizeOk(sym, snap), volumeOk |-> volumeOk(snap),
    spreadOk |-> spreadOk(sym, snap), momentumOk |-> momentumOk(snap),
    exhaustionOk |-> exhaustionOk(snap),
    passed |-> allPassed(signalQualityPassed(sym, snap), riskLimitsPassed(dl, cl, ls)) ]

\* Where the handler stands once logMarketEvent is issued.  When the code after
\* the await only returns (part_006:204, 209) the handler is finished: it reads
\* and writes nothing more.
AfterLogPc(sym, snap) ==
  IF ~riskLimitsPassed(dailyLimitOk, consecutiveLossOk, dailyLossOk)
  THEN IF shouldPause(consecutiveLossOk, dailyLossOk) THEN "logged" ELSE "idle"
  ELSE IF signalQualityPassed(sym, snap) THEN "logged" ELSE "idle"

\* handleMessage, bookTicker frame: the ticker is stored under the time of its
\* arrival and the mid price becomes the price (binance-ws.ts:147-159)
handleMessageBookTicker(sym, spread, p) ==
  /\ Alive
  /\ isConnected
  /\ bookTickers[sym].state # "unobserved"
  /\ bookTickers' = [bookTickers EXCEPT ![sym] =
                       [state |-> "set", spreadBps |-> spread, timestamp |-> now]]
  /\ prices' = [prices EXCEPT ![sym] = p]
  /\ UNCHANGED << now, isPaused, isLive, openTrade, symbolCooldowns, todayPnl,
                  todayTradeCount, consecutiveLosses, status, dbMode, tradingMode,
                  trades, events, liq, exits, config, riskPausedAt >>
  /\ UNCHANGED << proc, ctlVars, feedVars, cfgVars, envVars, recentVolumes >>

\* getSpreadBps (binance-ws.ts:171-176): the spread of the stored ticker,
\* whatever its age
getSpreadBps(sym) ==
  IF bookTickers[sym].state = "none" THEN noTickerSpreadBps ELSE bookTickers[sym].spreadBps

\* ---- the volume window (part_006:388-413) ---------------------------------------
\* a full window drops the sample that has just arrived
pushVolumeDropNewest(volumes, v) ==
  IF Len(volumes) < volumeWindowSize THEN Append(volumes, v)
  ELSE [volumes EXCEPT ![volumeWindowSize] = v]
\* volumes.push(..); if (volumes.length > 1000) volumes.shift() (part_006:391-396)
pushVolume(volumes, v) ==
  LET pushed == Append(volumes, v) IN
  IF Len(pushed) > volumeWindowSize THEN Tail(pushed) ELSE pushed

\* onTrade: a trade of the feed is added to the window of its symbol
onTrade(sym, v) ==
  /\ Alive
  /\ isConnected
  /\ recentVolumes[sym] # UnobservedWindow
  /\ recentVolumes' = [recentVolumes EXCEPT ![sym] = pushVolume(@, v)]
  /\ UNCHANGED << now, prices, isPaused, isLive, openTrade, symbolCooldowns, todayPnl,
                  todayTradeCount, consecutiveLosses, status, dbMode, tradingMode,
                  trades, events, liq, exits, config, riskPausedAt >>
  /\ UNCHANGED << proc, ctlVars, feedVars, cfgVars, envVars, bookTickers >>

RECURSIVE SumOf(_)
SumOf(volumes) == IF volumes = << >> THEN 0 ELSE Head(volumes) + SumOf(Tail(volumes))

\* Means are pairs << sum, count >>.
\* the sum is divided by the size of the window, not by the samples it holds
getAverageVolumeOfFullWindow(sym) ==
  << SumOf(recentVolumes[sym]), volumeWindowSize >>
\* getAverageVolume (part_006:401-405): 0 for an empty window
getAverageVolume(sym) ==
  IF Len(recentVolumes[sym]) = 0 THEN << 0, 1 >>
  ELSE << SumOf(recentVolumes[sym]), Len(recentVolumes[sym]) >>

\* getRecentVolume(symbol, 60) (part_006:407-413): the mean of the last
\* min(length, seconds * 10) samples
getRecentVolume(sym) ==
  LET volumes == recentVolumes[sym]
      samples == Min(Len(volumes), recentSamples)
      recent == SubSeq(volumes, Len(volumes) - samples + 1, Len(volumes))
  IN << SumOf(recent), Max(1, samples) >>

\* volumeMult = avgVolume > 0 ? recentVolume / avgVolume : 0, in hundredths,
\* rounded down (part_006:137-140)
volumeMultValueX100(sym) ==
  LET avgVolume == getAverageVolume(sym)
      recentVolume == getRecentVolume(sym)
  IN IF avgVolume[1] > 0
     THEN (100 * recentVolume[1] * avgVolume[2]) \div (recentVolume[2] * avgVolume[1])
     ELSE 0

\* the market data the gate reads on a liquidation: the spread comes from the
\* book and the volume multiple from the window where the run follows them
\* (part_006:133, 137-140)
Observed(sym, market) ==
  LET booked == IF bookTickers[sym].state = "unobserved" THEN market
                ELSE [market EXCEPT !.spreadBps = getSpreadBps(sym)]
  IN IF recentVolumes[sym] = UnobservedWindow THEN booked
     ELSE [booked EXCEPT !.volX100 = volumeMultValueX100(sym)]

\* A liquidation message is delivered: the guards, the criteria, and the call
\* of logMarketEvent (part_006:115-196), up to the first await.
onLiquidation(sym, side, market) ==
  LET snap == Observed(sym, market) IN
  /\ Alive
  /\ isConnected
  /\ Len(events) < config.maxTradesPerDay + ExtraLiq
  /\ HasIdle(liq, DOMAIN liq)
  /\ IF isPaused \/ openTrade # NoTrade \/ now < symbolCooldowns[sym]
     THEN UNCHANGED << events, liq >>
     ELSE LET h == LowestIdle(liq, DOMAIN liq) IN
          /\ events' = Append(events, MarketEvent(sym, snap, dailyLimitOk, consecutiveLossOk, dailyLossOk))
          /\ liq' = IF AfterLogPc(sym, snap) = "idle" THEN liq
                     ELSE [liq EXCEPT ![h] =
                       [LiqIdle EXCEPT !.pc = AfterLogPc(sym, snap), !.symbol = sym, !.side = side,
                                       !.eventId = Len(events) + 1,
                                       !.signalQualityPassed = signalQualityPassed(sym, snap),
                                       !.dailyLimitOk = dailyLimitOk,
                                       !.consecutiveLossOk = consecutiveLossOk,
                                       !.dailyLossOk = dailyLossOk]]
  /\ UNCHANGED << now, prices, isPaused, isLive, openTrade, symbolCooldowns, todayPnl,
                  todayTradeCount, consecutiveLosses, status, dbMode, tradingMode,
                  trades, exits, config, riskPausedAt >>
  /\ UNCHANGED << proc, ctlVars, feedVars, cfgVars, bookTickers, recentVolumes, envVars >>

\* A liquidation message is delivered and the insert of its Market Event
\* fails: logMarketEvent rejects (part_006:186-196, 422-448)
onLiquidationLogFails(sym, side, market) ==
  LET snap == Observed(sym, market) IN
  /\ Alive
  /\ isConnected
  /\ HasIdle(liq, DOMAIN liq)
  /\ ~(isPaused \/ openTrade # NoTrade \/ now < symbolCooldowns[sym])
  /\ AfterLogPc(sym, snap) = "logged"
  /\ liq' = [liq EXCEPT ![LowestIdle(liq, DOMAIN liq)] =
               [LiqIdle EXCEPT !.pc = "logFailed", !.symbol = sym, !.side = side,
                               !.signalQualityPassed = signalQualityPassed(sym, snap),
                               !.dailyLimitOk = dailyLimitOk,
                               !.consecutiveLossOk = consecutiveLossOk,
                               !.dailyLossOk = dailyLossOk]]
  /\ UNCHANGED << now, prices, isPaused, isLive, openTrade, symbolCooldowns, todayPnl,
                  todayTradeCount, consecutiveLosses, status, dbMode, tradingMode,
                  trades, events, exits, config, riskPausedAt >>
  /\ UNCHANGED << proc, ctlVars, feedVars, cfgVars, bookTickers, recentVolumes, envVars >>

\* The rejection leaves onLiquidation at the await of part_006:186: nothing
\* after it runs.  The listener (part_006:97-99) does not catch it: the runtime
\* ends the process, or only warns and the bot runs on
onLiquidationRejected(h, fatal) ==
  /\ Alive
  /\ liq[h].pc = "logFailed"
  /\ liq' = [liq EXCEPT ![h] = LiqIdle]
  /\ proc' = IF fatal THEN [pc |-> "crashed", slot |-> 0] ELSE proc
  /\ UNCHANGED << now, prices, isPaused, isLive, openTrade, symbolCooldowns, todayPnl,
                  todayTradeCount, consecutiveLosses, status, dbMode, tradingMode,
                  trades, events, exits, config, riskPausedAt >>
  /\ UNCHANGED << ctlVars, feedVars, cfgVars, bookTickers, recentVolumes, envVars >>

\* The row enterTrade inserts into trades (part_006:260-268)
NewTrade(sym, tradeSide, avgPrice, qty) ==
  [ symbol |-> sym, side |-> tradeSide, entryPrice |-> avgPrice, quantity |-> qty,
    isOpen |-> TRUE, entryTimestamp |-> now, exitReason |-> "-", pnlNum |-> 0,
    pnlUsdt |-> 0, duration |-> 0, exitTimestamp |-> -1 ]

\* the trade follows the liquidation
TradeSideWithLiquidation(liqSide) == IF liqSide = "BUY" THEN "LONG" ELSE "SHORT"
\* part_006:215-216: the trade goes against the liquidation
TradeSide(liqSide) == IF liqSide = "BUY" THEN "SHORT" ELSE "LONG"

\* logMarketEvent has returned: risk pause, signal check, and enterTrade up to
\* its first await (part_006:198-268).
onLiquidationAfterLog(h) ==
  /\ Alive
  /\ liq[h].pc = "logged"
  /\ LET l == liq[h]
         side == TradeSide(l.side)
         price == prices[l.symbol] IN
     IF ~riskLimitsPassed(l.dailyLimitOk, l.consecutiveLossOk, l.dailyLossOk)
     THEN \* updateBotState("PAUSED_RISK_LIMIT") is issued
          /\ status' = "PAUSED_RISK_LIMIT"
          /\ dbMode' = ModeOf(isLive)
          /\ riskPausedAt' = now
          /\ liq' = [liq EXCEPT ![h].pc = "pausing"]
          /\ UNCHANGED trades
     ELSE IF price = NoPrice
     THEN /\ liq' = [liq EXCEPT ![h] = LiqIdle]
          /\ UNCHANGED << status, dbMode, riskPausedAt, trades >>
     ELSE IF ~isLive
     THEN \* paper: simulated fill, then db.insert(trades) is issued
          \E s \in Slippage :
            LET avgPrice == IF side = "LONG"
                            THEN price * PriceScale + (price * s * PriceScale) \div BpsScale
                            ELSE price * PriceScale - (price * s * PriceScale) \div BpsScale IN
            /\ trades' = Append(trades, NewTrade(l.symbol, side, avgPrice, Quantity(price * PriceScale)))
            /\ liq' = [liq EXCEPT ![h].pc = "inserted", ![h].price = price,
                                  ![h].avgPrice = avgPrice, ![h].tradeId = Len(trades) + 1]
            /\ UNCHANGED << status, dbMode, riskPausedAt >>
     ELSE \* live: api.marketOrder is issued
          /\ liq' = [liq EXCEPT ![h].pc = "ordering", ![h].price = price]
          /\ UNCHANGED << status, dbMode, riskPausedAt, trades >>
  /\ UNCHANGED << now, prices, isPaused, isLive, openTrade, symbolCooldowns, todayPnl,
                  todayTradeCount, consecutiveLosses, tradingMode, events, exits, config >>
  /\ UNCHANGED << proc, ctlVars, feedVars, cfgVars, bookTickers, recentVolumes, envVars >>

\* updateBotState("PAUSED_RISK_LIMIT") has returned (part_006:202)
onLiquidationAfterPause(h) ==
  /\ Alive
  /\ liq[h].pc = "pausing"
  /\ isPaused' = TRUE
  /\ liq' = [liq EXCEPT ![h] = LiqIdle]
  /\ UNCHANGED << now, prices, isLive, openTrade, symbolCooldowns, todayPnl,
                  todayTradeCount, consecutiveLosses, status, dbMode, tradingMode,
                  trades, events, exits, config, riskPausedAt >>
  /\ UNCHANGED << proc, ctlVars, feedVars, cfgVars, bookTickers, recentVolumes, envVars >>

\* api.marketOrder has returned or thrown (part_006:250-268, 285-287); the venue
\* fills the whole quantity at the price the feed shows when the order returns
\* part_006:232: the side of the entry order, and part_006:325: of the exit order
entryOrderSide(side) == IF side = "LONG" THEN "BUY" ELSE "SELL"
exitOrderSide(side) == IF side = "LONG" THEN "SELL" ELSE "BUY"

\* the venue's net position after a filled market order of qty lots
Filled(pos, side, qty) == IF side = "BUY" THEN pos + qty ELSE pos - qty

afterFailedOrderRetry(l) == [l EXCEPT !.pc = "logged"]
\* enterTrade's catch (part_006:285-287): the error is logged and the call ends
afterFailedOrder(l) == LiqIdle

enterTradeAfterOrder(h, ok) ==
  /\ Alive
  /\ liq[h].pc = "ordering"
  /\ IF ok
     THEN LET avgPrice == prices[liq[h].symbol] * PriceScale IN
          /\ trades' = Append(trades, NewTrade(liq[h].symbol, TradeSide(liq[h].side),
                                               avgPrice, Quantity(liq[h].price * PriceScale)))
          /\ liq' = [liq EXCEPT ![h].pc = "inserted", ![h].avgPrice = avgPrice,
                                ![h].tradeId = Len(trades) + 1]
     ELSE /\ liq' = [liq EXCEPT ![h] = afterFailedOrder(liq[h])]
          /\ UNCHANGED trades
  /\ UNCHANGED << now, prices, isPaused, isLive, openTrade, symbolCooldowns, todayPnl,
                  todayTradeCount, consecutiveLosses, status, dbMode, tradingMode,
                  events, exits, config, riskPausedAt >>
  /\ venuePos' = IF ok THEN Filled(venuePos, entryOrderSide(TradeSide(liq[h].side)), 1)
                  ELSE venuePos
  /\ UNCHANGED << proc, ctlVars, feedVars, cfgVars, bookTickers, recentVolumes, exitFailures >>

\* api.marketOrder has returned a fill and db.insert(trades) rejects: control
\* goes to enterTrade's catch, past the lines that set openTrade, the cooldown
\* and the trade count (part_006:250-287)
enterTradeInsertFails(h) ==
  /\ Alive
  /\ liq[h].pc = "ordering"
  /\ venuePos' = Filled(venuePos, entryOrderSide(TradeSide(liq[h].side)), 1)
  /\ liq' = [liq EXCEPT ![h] = afterFailedOrder(liq[h])]
  /\ UNCHANGED << now, prices, isPaused, isLive, openTrade, symbolCooldowns, todayPnl,
                  todayTradeCount, consecutiveLosses, status, dbMode, tradingMode,
                  trades, events, exits, config, riskPausedAt >>
  /\ UNCHANGED << proc, ctlVars, feedVars, cfgVars, bookTickers, recentVolumes, exitFailures >>

\* db.insert(trades) has returned: the slot, the cooldown, the trade count
\* (part_006:270-283)
enterTradeAfterInsert(h) ==
  /\ Alive
  /\ liq[h].pc = "inserted"
  /\ openTrade' = [symbol |-> liq[h].symbol, entryPrice |-> liq[h].avgPrice,
                   side |-> TradeSide(liq[h].side), entryTime |-> now,
                   tradeId |-> liq[h].tradeId]
  /\ symbolCooldowns' = [symbolCooldowns EXCEPT ![liq[h].symbol] = now + symbolCooldownSeconds * TicksPerSec]
  /\ todayTradeCount' = todayTradeCount + 1
  /\ liq' = [liq EXCEPT ![h] = LiqIdle]
  /\ UNCHANGED << now, prices, isPaused, isLive, todayPnl, consecutiveLosses, status,
                  dbMode, tradingMode, trades, events, exits, config, riskPausedAt >>
  /\ UNCHANGED << proc, ctlVars, feedVars, cfgVars, bookTickers, recentVolumes, envVars >>


\* ---- position monitor and exitTrade -----------------------------------------------
\* db.update(trades).set({...}).where(id = tradeId)  (part_006:347-369)
CloseTrade(t, e, qty) ==
  [t EXCEPT !.isOpen = FALSE, !.exitReason = e.exitReason,
            !.pnlNum = PnlNum(e.side, e.exitPrice, e.entryPrice),
            !.pnlUsdt = qty * PnlNum(e.side, e.exitPrice, e.entryPrice),
            !.duration = (now - e.entryTime) \div TicksPerSec,
            !.exitTimestamp = now]

\* exitTrade from the PnL computation to the issued db.update (part_006:347-369)
ExitRecord(x, e, qty) ==
  /\ trades' = [trades EXCEPT ![e.tradeId] = CloseTrade(@, e, qty)]
  /\ exits' = [exits EXCEPT ![x] = [e EXCEPT !.pc = "updated", !.quantity = qty,
                                              !.pnlUsdt = qty * PnlNum(e.side, e.exitPrice, e.entryPrice)]]

\* exitTrade up to its first await (part_006:321-345)
exitTrade(x, exitReason) ==
  LET e == [ExitIdle EXCEPT !.exitReason = exitReason, !.symbol = openTrade.symbol,
                            !.entryPrice = openTrade.entryPrice, !.side = openTrade.side,
                            !.entryTime = openTrade.entryTime, !.tradeId = openTrade.tradeId,
                            !.exitPrice = IF prices[openTrade.symbol] # NoPrice
                                          THEN prices[openTrade.symbol] * PriceScale
                                          ELSE openTrade.entryPrice]
  IN IF ~isLive
     THEN ExitRecord(x, e, Quantity(openTrade.entryPrice))
     ELSE \* api.getPositions is issued
          /\ exits' = [exits EXCEPT ![x] = [e EXCEPT !.pc = "positions"]]
          /\ UNCHANGED trades

\* one firing of the 100 ms interval that finds an exit condition (part_006:291-318)
positionMonitor ==
  /\ Alive
  /\ openTrade # NoTrade
  /\ prices[openTrade.symbol] # NoPrice
  /\ HasIdle(exits, DOMAIN exits)
  /\ LET pnlNum == PnlNum(openTrade.side, prices[openTrade.symbol] * PriceScale, openTrade.entryPrice)
         exitReason == exitReasonFor(pnlNum, openTrade.entryPrice, now - openTrade.entryTime)
     IN /\ exitReason # "NONE"
        /\ exitTrade(LowestIdle(exits, DOMAIN exits), exitReason)
  /\ UNCHANGED << now, prices, isPaused, isLive, openTrade, symbolCooldowns, todayPnl,
                  todayTradeCount, consecutiveLosses, status, dbMode, tradingMode,
                  events, liq, config, riskPausedAt >>
  /\ UNCHANGED << proc, ctlVars, feedVars, cfgVars, bookTickers, recentVolumes, envVars >>

\* api.getPositions has returned or thrown (part_006:338-345, 383-385);
\* outcome "found": the venue reports its net position, a multiple of the
\* entry's quantity; "none": it reports none (it holds none, or closes what it
\* held on its own account)
exitTradeAfterPositions(x, outcome) ==
  /\ Alive
  /\ exits[x].pc = "positions"
  /\ outcome = "found" => venuePos # 0
  /\ venuePos' = IF outcome = "none" THEN 0 ELSE venuePos
  /\ CASE outcome = "throw" -> /\ exits' = [exits EXCEPT ![x] = ExitIdle]
                               /\ UNCHANGED trades
       [] outcome = "none"  -> ExitRecord(x, exits[x], 0)
       [] outcome = "found" -> \* api.marketOrder is issued
                               /\ exits' = [exits EXCEPT ![x].pc = "ordering",
                                                         ![x].quantity = trades[exits[x].tradeId].quantity * Abs(venuePos)]
                               /\ UNCHANGED trades
  /\ UNCHANGED << now, prices, isPaused, isLive, openTrade, symbolCooldowns, todayPnl,
                  todayTradeCount, consecutiveLosses, status, dbMode, tradingMode,
                  events, liq, config, riskPausedAt >>
  /\ proc' = IF outcome = "throw" THEN ProcAfterExit(x) ELSE proc
  /\ exitFailures' = IF outcome = "throw" THEN exitFailed ELSE exitFailures
  /\ UNCHANGED << ctlVars, feedVars, cfgVars, bookTickers, recentVolumes >>

\* the exit's api.marketOrder has returned or thrown (part_006:343, 383-385)
exitTradeAfterOrder(x, ok) ==
  /\ Alive
  /\ exits[x].pc = "ordering"
  /\ IF ok THEN ExitRecord(x, exits[x], exits[x].quantity)
     ELSE /\ exits' = [exits EXCEPT ![x] = ExitIdle]
          /\ UNCHANGED trades
  /\ UNCHANGED << now, prices, isPaused, isLive, openTrade, symbolCooldowns, todayPnl,
                  todayTradeCount, consecutiveLosses, status, dbMode, tradingMode,
                  events, liq, config, riskPausedAt >>
  /\ proc' = IF ok THEN proc ELSE ProcAfterExit(x)
  /\ exitFailures' = IF ok THEN exitFailures ELSE exitFailed
  /\ venuePos' = IF ok THEN Filled(venuePos, exitOrderSide(exits[x].side), Abs(venuePos))
                  ELSE venuePos
  /\ UNCHANGED << ctlVars, feedVars, cfgVars, bookTickers, recentVolumes >>

\* db.update(trades) has returned: the day's counters, updateMetrics issued
\* (part_006:371-379)
exitTradeAfterUpdate(x) ==
  /\ Alive
  /\ exits[x].pc = "updated"
  /\ todayPnl' = todayPnl + exits[x].pnlUsdt
  /\ consecutiveLosses' = nextConsecutiveLosses(exits[x].pnlUsdt, consecutiveLosses)
  /\ exits' = [exits EXCEPT ![x].pc = "metrics"]
  /\ UNCHANGED << now, prices, isPaused, isLive, openTrade, symbolCooldowns,
                  todayTradeCount, status, dbMode, tradingMode, trades, events, liq,
                  config, riskPausedAt >>
  /\ UNCHANGED << proc, ctlVars, feedVars, cfgVars, bookTickers, recentVolumes, envVars >>

\* updateMetrics has returned: the slot is cleared (part_006:381)
exitTradeAfterMetrics(x) ==
  /\ Alive
  /\ exits[x].pc = "metrics"
  /\ openTrade' = NoTrade
  /\ exits' = [exits EXCEPT ![x] = ExitIdle]
  /\ UNCHANGED << now, prices, isPaused, isLive, symbolCooldowns, todayPnl,
                  todayTradeCount, consecutiveLosses, status, dbMode, tradingMode,
                  trades, events, liq, config, riskPausedAt >>
  /\ proc' = ProcAfterExit(x)
  /\ exitFailures' = exitDone
  /\ UNCHANGED venuePos
  /\ UNCHANGED << ctlVars, feedVars, cfgVars, bookTickers, recentVolumes >>

\* ---- main(): the 5 s poll of the trading mode (part_005:72-80, part_006:541-547) --
pollTradingMode ==
  /\ Alive
  /\ dbMode # tradingMode
  /\ tradingMode' = dbMode
  /\ isLive' = (dbMode = "live")
  /\ UNCHANGED << now, prices, isPaused, openTrade, symbolCooldowns, todayPnl,
                  todayTradeCount, consecutiveLosses, status, dbMode, trades, events,
                  liq, exits, config, riskPausedAt >>
  /\ UNCHANGED << proc, ctlVars, feedVars, cfgVars, bookTickers, recentVolumes, envVars >>

\* ---- dashboard control endpoints (server/routes.ts:198-292) ---------------------
\* the control requests that have been received and not yet answered
RequestsInFlight ==
  (IF pausePc = "idle" THEN 0 ELSE 1) + (IF resumePc = "idle" THEN 0 ELSE 1)
    + (IF flattenPc = "idle" THEN 0 ELSE 1)

pauseStatusToggle(cur) == IF cur = "PAUSED_MANUAL" THEN "RUNNING" ELSE "PAUSED_MANUAL"
\* routes.ts:200-202: the status the pause endpoint stores
pauseStatus(cur) == "PAUSED_MANUAL"

resumeAllowedFromAnyPause(cur) == cur \in {"PAUSED_MANUAL", "PAUSED_RISK_LIMIT"}
\* routes.ts:222: Can only resume from PAUSED_MANUAL
resumeAllowed(cur) == cur = "PAUSED_MANUAL"

\* POST /api/control/pause: storage.updateBotState has read the current row
\* (routes.ts:198-202, storage.ts:74-75)
routePause ==
  /\ pausePc = "idle"
  /\ RequestsInFlight < MaxRequests
  /\ pausePc' = "updating"
  /\ UNCHANGED << now, prices, isPaused, isLive, openTrade, symbolCooldowns, todayPnl,
                  todayTradeCount, consecutiveLosses, status, dbMode, tradingMode, trades,
                  events, liq, exits, config, riskPausedAt >>
  /\ UNCHANGED << proc, response, resumePc, flattenPc, repeated, modeRequest, feedVars, cfgVars, bookTickers, recentVolumes, envVars >>

\* the row is written and the request answered (storage.ts:77-87, routes.ts:204-211)
routePauseUpdate ==
  /\ pausePc = "updating"
  /\ status' = pauseStatus(status)
  /\ response' = "pause 200"
  /\ pausePc' = "idle"
  /\ repeated' = IF response = "pause 200" THEN repeated \cup {"pause"} ELSE repeated
  /\ UNCHANGED << now, prices, isPaused, isLive, openTrade, symbolCooldowns, todayPnl,
                  todayTradeCount, consecutiveLosses, dbMode, tradingMode, trades,
                  events, liq, exits, config, riskPausedAt >>
  /\ UNCHANGED << proc, resumePc, flattenPc, modeRequest, feedVars, cfgVars, bookTickers, recentVolumes, envVars >>

\* POST /api/control/resume: getBotState has returned; the request is answered
\* with 400 or goes on to storage.updateBotState (routes.ts:217-230)
routeResume ==
  /\ resumePc = "idle"
  /\ RequestsInFlight < MaxRequests
  /\ IF resumeAllowed(status)
     THEN resumePc' = "updating" /\ UNCHANGED << response, repeated >>
     ELSE /\ response' = "resume 400"
          /\ UNCHANGED << resumePc, repeated >>
  /\ UNCHANGED << now, prices, isPaused, isLive, openTrade, symbolCooldowns, todayPnl,
                  todayTradeCount, consecutiveLosses, status, dbMode, tradingMode, trades,
                  events, liq, exits, config, riskPausedAt >>
  /\ UNCHANGED << proc, pausePc, flattenPc, modeRequest, feedVars, cfgVars, bookTickers, recentVolumes, envVars >>

\* storage.updateBotState({status: "RUNNING"}) writes the row (routes.ts:228-239,
\* storage.ts:74-88)
routeResumeUpdate ==
  /\ resumePc = "updating"
  /\ status' = "RUNNING"
  /\ response' = "resume 200"
  /\ resumePc' = "idle"
  /\ UNCHANGED repeated
  /\ UNCHANGED << now, prices, isPaused, isLive, openTrade, symbolCooldowns, todayPnl,
                  todayTradeCount, consecutiveLosses, dbMode, tradingMode, trades,
                  events, liq, exits, config, riskPausedAt >>
  /\ UNCHANGED << proc, pausePc, flattenPc, modeRequest, feedVars, cfgVars, bookTickers, recentVolumes, envVars >>

\* POST /api/control/flatten: storage.setOpenPosition(null) runs
\* update trades set is_open = false where is_open (routes.ts:248, storage.ts:179-183)
routeFlatten ==
  /\ flattenPc = "idle"
  /\ RequestsInFlight < MaxRequests
  /\ flattenPc' = "pausing"
  /\ trades' = [i \in DOMAIN trades |-> [trades[i] EXCEPT !.isOpen = FALSE]]
  /\ UNCHANGED << now, prices, isPaused, isLive, openTrade, symbolCooldowns, todayPnl,
                  todayTradeCount, consecutiveLosses, status, dbMode, tradingMode, events,
                  liq, exits, config, riskPausedAt >>
  /\ UNCHANGED << proc, response, resumePc, pausePc, repeated, modeRequest, feedVars, cfgVars, bookTickers, recentVolumes, envVars >>

\* storage.updateBotState({status: "PAUSED_MANUAL"}) and the answer (routes.ts:251-262)
routeFlattenUpdate ==
  /\ flattenPc = "pausing"
  /\ status' = "PAUSED_MANUAL"
  /\ response' = "flatten 200"
  /\ flattenPc' = "idle"
  /\ UNCHANGED repeated
  /\ UNCHANGED << now, prices, isPaused, isLive, openTrade, symbolCooldowns, todayPnl,
                  todayTradeCount, consecutiveLosses, dbMode, tradingMode, trades, events,
                  liq, exits, config, riskPausedAt >>
  /\ UNCHANGED << proc, resumePc, pausePc, modeRequest, feedVars, cfgVars, bookTickers, recentVolumes, envVars >>

\* POST /api/control/trading-mode up to the await in storage.updateBotState:
\* getBotState() reads the row (routes.ts:269-277, storage.ts:74-75)
routeTradingMode(mode) ==
  /\ modeRequest = ModeIdle
  /\ modeRequest' = [pc |-> "read", mode |-> mode, status |-> status]
  /\ UNCHANGED << now, prices, isPaused, isLive, openTrade, symbolCooldowns, todayPnl,
                  todayTradeCount, consecutiveLosses, status, dbMode, tradingMode, trades,
                  events, liq, exits, config, riskPausedAt >>
  /\ UNCHANGED << proc, response, resumePc, pausePc, flattenPc, repeated, feedVars,
                  cfgVars, bookTickers, recentVolumes, envVars >>

\* the row is written from what was read: status: updates.status || current.status,
\* tradingMode: updates.tradingMode || current.tradingMode (storage.ts:77-85)
routeTradingModeUpdate ==
  /\ modeRequest.pc = "read"
  /\ status' = modeRequest.status
  /\ dbMode' = modeRequest.mode
  /\ modeRequest' = ModeIdle
  /\ UNCHANGED << now, prices, isPaused, isLive, openTrade, symbolCooldowns, todayPnl,
                  todayTradeCount, consecutiveLosses, tradingMode, trades,
                  events, liq, exits, config, riskPausedAt >>
  /\ UNCHANGED << proc, response, resumePc, pausePc, flattenPc, repeated, feedVars,
                  cfgVars, bookTickers, recentVolumes, envVars >>

\* ---- storage.getConfig, storage.updateConfig (server/storage.ts:355-473) ------
\* getConfig(): the newest row with the two maps written out, or the default
\* Configuration if there is no row (storage.ts:355-396)
getConfig ==
  IF configRows = << >> THEN getDefaultConfig
  ELSE LET record == configRows[Len(configRows)] IN
    [version                 |-> record.version,
     leverage                |-> record.leverage,
     risk_per_trade_pct      |-> record.risk_per_trade_pct,
     daily_max_loss_pct      |-> record.daily_max_loss_pct,
     max_trades_per_day      |-> record.max_trades_per_day,
     max_consecutive_losses  |-> record.max_consecutive_losses,
     pause_after_consecutive_losses_minutes |-> record.pause_after_losses_minutes,
     liq_window_seconds      |-> record.liq_window_seconds,
     min_liq_usd             |-> dashboardMinLiqUsd,
     volume_lookback         |-> record.volume_lookback,
     volume_mult             |-> record.volume_mult,
     exhaustion_candles      |-> record.exhaustion_candles,
     max_spread_bps          |-> dashboardMaxSpreadBps,
     symbol_cooldown_seconds |-> record.symbol_cooldown_seconds,
     tp_pct                  |-> record.tp_pct,
     sl_pct                  |-> record.sl_pct,
     time_stop_seconds       |-> record.time_stop_seconds,
     entry_fill_timeout_ms   |-> record.entry_fill_timeout_ms]

\* getConfig().version (storage.ts:356-363, 400)
getConfigVersion == getConfig.version

\* the bot's loadConfig(): the newest row, or the bot's defaults (part_005:112-157)
loadConfig ==
  IF configRows = << >>
  THEN [leverage              |-> 2 * Half,
        riskPerTradePct       |-> 25,
        dailyMaxLossPct       |-> 150,
        maxTradesPerDay       |-> 10 * Half,
        maxConsecutiveLosses  |-> 3 * Half,
        liqWindowSeconds      |-> 60 * Half,
        minLiqUsd             |-> loaderMinLiqUsd,
        volumeMult            |-> 20,
        maxSpreadBps          |-> loaderMaxSpreadBps,
        symbolCooldownSeconds |-> 300 * Half,
        tpPct                 |-> 35,
        slPct                 |-> 45,
        timeStopSeconds       |-> 150 * Half,
        entryFillTimeoutMs    |-> 800 * Half]
  ELSE LET record == configRows[Len(configRows)] IN
       [leverage              |-> record.leverage,
        riskPerTradePct       |-> record.risk_per_trade_pct,
        dailyMaxLossPct       |-> record.daily_max_loss_pct,
        maxTradesPerDay       |-> record.max_trades_per_day,
        maxConsecutiveLosses  |-> record.max_consecutive_losses,
        liqWindowSeconds      |-> record.liq_window_seconds,
        minLiqUsd             |-> loaderMinLiqUsd,
        volumeMult            |-> record.volume_mult,
        maxSpreadBps          |-> loaderMaxSpreadBps,
        symbolCooldownSeconds |-> record.symbol_cooldown_seconds,
        tpPct                 |-> record.tp_pct,
        slPct                 |-> record.sl_pct,
        timeStopSeconds       |-> record.time_stop_seconds,
        entryFillTimeoutMs    |-> record.entry_fill_timeout_ms]

\* the object the route hands to storage.updateConfig (routes.ts:148-174)
configUpdate(f) ==
  [leverage                |-> f.leverage,
   risk_per_trade_pct      |-> f.risk_per_trade_pct,
   daily_max_loss_pct      |-> f.daily_max_loss_pct,
   max_trades_per_day      |-> f.max_trades_per_day,
   max_consecutive_losses  |-> f.max_consecutive_losses,
   pause_after_consecutive_losses_minutes |-> 60 * Half,
   tp_pct                  |-> f.tp_pct,
   sl_pct                  |-> f.sl_pct,
   time_stop_seconds       |-> f.time_stop_seconds,
   entry_fill_timeout_ms   |-> 800 * Half,
   liq_window_seconds      |-> f.liq_window_seconds,
   min_liq_usd             |-> dashboardMinLiqUsd,
   volume_lookback         |-> 20 * Half,
   volume_mult             |-> f.volume_mult,
   exhaustion_candles      |-> f.exhaustion_candles,
   max_spread_bps          |-> dashboardMaxSpreadBps,
   symbol_cooldown_seconds |-> f.symbol_cooldown_seconds]

\* the row updateConfig writes: the version it read plus one and the columns of
\* the update; every field the route hands over is defined and none is taken
\* from the Configuration read; the maps have no column (storage.ts:440-464)
newConfig(version, updates) ==
  [version                    |-> version + 1,
   leverage                   |-> updates.leverage,
   risk_per_trade_pct         |-> updates.risk_per_trade_pct,
   daily_max_loss_pct         |-> updates.daily_max_loss_pct,
   max_trades_per_day         |-> updates.max_trades_per_day,
   max_consecutive_losses     |-> updates.max_consecutive_losses,
   pause_after_losses_minutes |-> updates.pause_after_consecutive_losses_minutes,
   liq_window_seconds         |-> updates.liq_window_seconds,
   volume_lookback            |-> updates.volume_lookback,
   volume_mult                |-> updates.volume_mult,
   exhaustion_candles         |-> updates.exhaustion_candles,
   symbol_cooldown_seconds    |-> updates.symbol_cooldown_seconds,
   tp_pct                     |-> updates.tp_pct,
   sl_pct                     |-> updates.sl_pct,
   time_stop_seconds          |-> updates.time_stop_seconds,
   entry_fill_timeout_ms      |-> updates.entry_fill_timeout_ms]

\* the store takes the row: an integer column holds whole numbers only
\* (shared/schema.ts:89-106)
Storable(row) == \A k \in IntegerColumns : row[k] % Half = 0

PublishesStarted ==
  Len(published) + Cardinality({r \in DOMAIN publish : publish[r].pc # "idle"})

\* POST /api/config/publish with body f: a body that fails the form's schema is
\* answered 400 at once; otherwise updateConfig has read the current
\* Configuration (routes.ts:135-176, storage.ts:436)
publishStart(r, f) ==
  /\ publish[r].pc = "idle"
  /\ r = LowestIdle(publish, DOMAIN publish)
  /\ PublishesStarted < MaxPublish
  /\ IF formValid(f)
     THEN /\ publish' = [publish EXCEPT ![r] =
                 [pc |-> "read", version |-> getConfigVersion, existing |-> 0, form |-> f]]
          /\ UNCHANGED publishAnswer
     ELSE /\ publishAnswer' = [form |-> f, code |-> "400"]
          /\ UNCHANGED publish
  /\ UNCHANGED << now, prices, isPaused, isLive, openTrade, symbolCooldowns, todayPnl,
                  todayTradeCount, consecutiveLosses, status, dbMode, tradingMode, trades,
                  events, liq, exits, config, riskPausedAt >>
  /\ UNCHANGED << proc, ctlVars, feedVars, configRows, published, envVars, bookTickers, recentVolumes >>

\* the newest row has been selected as the row to update, 0 if there is none
\* (storage.ts:438)
publishSelect(r) ==
  /\ publish[r].pc = "read"
  /\ publish' = [publish EXCEPT ![r].pc = "selected", ![r].existing = Len(configRows)]
  /\ UNCHANGED << now, prices, isPaused, isLive, openTrade, symbolCooldowns, todayPnl,
                  todayTradeCount, consecutiveLosses, status, dbMode, tradingMode, trades,
                  events, liq, exits, config, riskPausedAt >>
  /\ UNCHANGED << proc, ctlVars, feedVars, configRows, published, publishAnswer, envVars, bookTickers, recentVolumes >>

\* the row is written over the selected row, or inserted as a new row, and the
\* Configuration is answered; a row the store refuses is answered 500
\* (storage.ts:440-472, routes.ts:176-189)
publishWrite(r) ==
  LET row == newConfig(publish[r].version, configUpdate(publish[r].form)) IN
  /\ publish[r].pc = "selected"
  /\ IF Storable(row)
     THEN /\ configRows' = IF publish[r].existing # 0
                           THEN [configRows EXCEPT ![publish[r].existing] = row]
                           ELSE Append(configRows, row)
          /\ published' = Append(published, row.version)
          /\ publishAnswer' = [form |-> publish[r].form, code |-> "200"]
     ELSE /\ publishAnswer' = [form |-> publish[r].form, code |-> "500"]
          /\ UNCHANGED << configRows, published >>
  /\ publish' = [publish EXCEPT ![r] = PublishIdle]
  /\ UNCHANGED << now, prices, isPaused, isLive, openTrade, symbolCooldowns, todayPnl,
                  todayTradeCount, consecutiveLosses, status, dbMode, tradingMode, trades,
                  events, liq, exits, config, riskPausedAt >>
  /\ UNCHANGED << proc, ctlVars, feedVars, envVars, bookTickers, recentVolumes >>

\* ---- the feed socket (binance-ws.ts:50-99, 263-290) ---------------------------
backoffDelayLinear(k) == reconnectDelay * k
\* binance-ws.ts:271: reconnectDelay * Math.pow(2, reconnectAttempts - 1)
backoffDelay(k) == reconnectDelay * 2^(k - 1)

\* reconnect() up to its first await (binance-ws.ts:263-275), called by the
\* "close" handler: give up at the ceiling, or count the attempt and arm the timer
reconnect ==
  IF reconnectAttempts >= maxReconnectAttempts
  THEN /\ feedPc' = "stopped"
       /\ UNCHANGED << reconnectAttempts, delay, waited >>
  ELSE /\ reconnectAttempts' = reconnectAttempts + 1
       /\ delay' = backoffDelay(reconnectAttempts + 1)
       /\ waited' = 0
       /\ feedPc' = "waiting"

\* the "close" handler of the socket (binance-ws.ts:87-93): an open socket
\* drops, or a connection attempt ends without an "open"
wsClose ==
  /\ Alive
  /\ feedPc \in {"open", "connecting", "closing"}
  /\ isConnected' = FALSE
  /\ reconnect
  /\ UNCHANGED disconnectCalled
  /\ UNCHANGED << now, prices, isPaused, isLive, openTrade, symbolCooldowns, todayPnl,
                  todayTradeCount, consecutiveLosses, status, dbMode, tradingMode, trades,
                  events, liq, exits, config, riskPausedAt >>
  /\ UNCHANGED << proc, ctlVars, cfgVars, bookTickers, recentVolumes, envVars >>

\* one second of the setTimeout of reconnect() passes (binance-ws.ts:275)
reconnectTimerTick ==
  /\ Alive
  /\ feedPc = "waiting"
  /\ delay > 0
  /\ delay' = delay - 1
  /\ waited' = waited + 1
  /\ UNCHANGED << now, prices, isPaused, isLive, openTrade, symbolCooldowns, todayPnl,
                  todayTradeCount, consecutiveLosses, status, dbMode, tradingMode, trades,
                  events, liq, exits, config, riskPausedAt >>
  /\ UNCHANGED << proc, ctlVars, cfgVars, bookTickers, recentVolumes, envVars, isConnected, reconnectAttempts, feedPc, disconnectCalled >>

\* the timer fires and reconnect() calls connect() (binance-ws.ts:277-278, 61-62)
reconnectAttempt ==
  /\ Alive
  /\ feedPc = "waiting"
  /\ delay = 0
  /\ feedPc' = "connecting"
  /\ UNCHANGED << now, prices, isPaused, isLive, openTrade, symbolCooldowns, todayPnl,
                  todayTradeCount, consecutiveLosses, status, dbMode, tradingMode, trades,
                  events, liq, exits, config, riskPausedAt >>
  /\ UNCHANGED << proc, ctlVars, cfgVars, bookTickers, recentVolumes, envVars, isConnected, reconnectAttempts, delay, waited, disconnectCalled >>

\* resolve() in the "open" handler (binance-ws.ts:71) settles the promise of
\* the connect() call that made this socket: main() awaits the promise of the
\* first call only (part_005:58), the later calls are reconnect()'s
\* (binance-ws.ts:278), made after reconnectAttempts was raised
resolveConnect == IF proc = Booting /\ reconnectAttempts = 0 THEN Connected ELSE proc

\* the "open" handler (binance-ws.ts:65-72)
wsOpen ==
  /\ Alive
  /\ feedPc = "connecting"
  /\ isConnected' = TRUE
  /\ reconnectAttempts' = 0
  /\ feedPc' = "open"
  /\ proc' = resolveConnect
  /\ UNCHANGED << now, prices, isPaused, isLive, openTrade, symbolCooldowns, todayPnl,
                  todayTradeCount, consecutiveLosses, status, dbMode, tradingMode, trades,
                  events, liq, exits, config, riskPausedAt >>
  /\ UNCHANGED << ctlVars, cfgVars, bookTickers, recentVolumes, envVars, delay, waited, disconnectCalled >>

\* main() goes on after its ws.connect() resolved: the strategy is built and
\* start() issues updateBotState("RUNNING") (part_005:58-69, part_006:65-70)
strategyStart ==
  /\ proc = Connected
  /\ proc' = Running
  /\ status' = "RUNNING"
  /\ dbMode' = ModeOf(isLive)
  /\ UNCHANGED << now, prices, isPaused, isLive, openTrade, symbolCooldowns, todayPnl,
                  todayTradeCount, consecutiveLosses, tradingMode, trades,
                  events, liq, exits, config, riskPausedAt >>
  /\ UNCHANGED << ctlVars, feedVars, cfgVars, bookTickers, recentVolumes, envVars >>

\* the "error" handler (binance-ws.ts:82-85) re-emits "error" on the
\* BinanceWebSocket; nothing listens for it, so EventEmitter throws and the
\* process ends with an uncaught exception
wsError ==
  /\ Alive
  /\ feedPc \in {"open", "connecting", "closing"}
  /\ proc' = [pc |-> "crashed", slot |-> 0]
  /\ UNCHANGED << now, prices, isPaused, isLive, openTrade, symbolCooldowns, todayPnl,
                  todayTradeCount, consecutiveLosses, status, dbMode, tradingMode, trades,
                  events, liq, exits, config, riskPausedAt >>
  /\ UNCHANGED << ctlVars, feedVars, cfgVars, bookTickers, recentVolumes, envVars >>

\* disconnect() (binance-ws.ts:284-290): the ping timer is cleared, close() is
\* called on the socket and the reference dropped; the socket's handlers stay
\* registered and a pending reconnect timer is not cleared.  close() on a
\* socket that has already closed does nothing.
disconnect ==
  /\ Alive
  /\ ~disconnectCalled
  /\ disconnectCalled' = TRUE
  /\ feedPc' = IF feedPc \in {"open", "connecting"} THEN "closing" ELSE feedPc
  /\ UNCHANGED << now, prices, isPaused, isLive, openTrade, symbolCooldowns, todayPnl,
                  todayTradeCount, consecutiveLosses, status, dbMode, tradingMode, trades,
                  events, liq, exits, config, riskPausedAt >>
  /\ UNCHANGED << proc, ctlVars, cfgVars, bookTickers, recentVolumes, envVars,
                  isConnected, reconnectAttempts, delay, waited >>

\* ---- SIGINT / SIGTERM (part_005:82-95) and flatten (part_006:529-563) ----------
\* pause() up to its await: the flag, and updateBotState("PAUSED_MANUAL") issued
\* (part_006:529-533, 450-465)
pause ==
  /\ isPaused' = TRUE
  /\ status' = "PAUSED_MANUAL"
  /\ dbMode' = ModeOf(isLive)

\* flatten() after closeAllPositions: exitTrade("FLATTEN") if a position is
\* held, then pause() (part_006:559-562)
flattenOpenTrade ==
  IF openTrade # NoTrade
  THEN /\ HasIdle(exits, DOMAIN exits)
       /\ exitTrade(LowestIdle(exits, DOMAIN exits), "FLATTEN")
       /\ proc' = [pc |-> "flattenExit", slot |-> LowestIdle(exits, DOMAIN exits)]
       /\ UNCHANGED << isPaused, status, dbMode >>
  ELSE /\ pause
       /\ proc' = [pc |-> "paused", slot |-> 0]
       /\ UNCHANGED << exits, trades >>

\* the signal handler starts strategy.flatten() (part_005:83-85, part_006:549-557)
signalReceived ==
  /\ proc.pc = "running"
  /\ IF isLive
     THEN \* api.closeAllPositions is issued
          /\ proc' = [pc |-> "closingAll", slot |-> 0]
          /\ UNCHANGED << isPaused, status, dbMode, exits, trades >>
     ELSE flattenOpenTrade
  /\ UNCHANGED << now, prices, isLive, openTrade, symbolCooldowns, todayPnl,
                  todayTradeCount, consecutiveLosses, tradingMode, events, liq,
                  config, riskPausedAt >>
  /\ UNCHANGED << ctlVars, feedVars, cfgVars, bookTickers, recentVolumes, envVars >>

\* api.closeAllPositions has returned or thrown (part_006:553-554,
\* part_005:375-386).  A throw rejects flatten() and the handler's promise with
\* nothing to catch it: the runtime ends the process, or only warns and the
\* bot runs on
closeAllPositionsReturns(ok, fatal) ==
  /\ proc.pc = "closingAll"
  /\ IF ok THEN flattenOpenTrade
     ELSE /\ proc' = IF fatal THEN [pc |-> "crashed", slot |-> 0] ELSE Running
          /\ UNCHANGED << isPaused, status, dbMode, exits, trades >>
  /\ UNCHANGED << now, prices, isLive, openTrade, symbolCooldowns, todayPnl,
                  todayTradeCount, consecutiveLosses, tradingMode, events, liq,
                  config, riskPausedAt >>
  /\ venuePos' = IF ok THEN 0 ELSE venuePos
  /\ UNCHANGED << ctlVars, feedVars, cfgVars, bookTickers, recentVolumes, exitFailures >>

\* exitTrade("FLATTEN") has returned: pause() (part_006:562)
flattenPause ==
  /\ proc.pc = "flattened"
  /\ pause
  /\ proc' = [pc |-> "paused", slot |-> 0]
  /\ UNCHANGED << now, prices, isLive, openTrade, symbolCooldowns, todayPnl,
                  todayTradeCount, consecutiveLosses, tradingMode, trades, events, liq,
                  exits, config, riskPausedAt >>
  /\ UNCHANGED << ctlVars, feedVars, cfgVars, bookTickers, recentVolumes, envVars >>

\* flatten() has returned: ws.disconnect() and process.exit(0) (part_005:86-87)
processExit ==
  /\ proc.pc = "paused"
  /\ proc' = [pc |-> "exited", slot |-> 0]
  /\ UNCHANGED << now, prices, isPaused, isLive, openTrade, symbolCooldowns, todayPnl,
                  todayTradeCount, consecutiveLosses, status, dbMode, tradingMode, trades,
                  events, liq, exits, config, riskPausedAt >>
  /\ UNCHANGED << ctlVars, feedVars, cfgVars, bookTickers, recentVolumes, envVars >>

NextPaper ==
  \/ Tick
  \/ \E sym \in Symbols, p \in Prices : handleMessagePrice(sym, p)
  \/ \E sym \in Symbols, side \in Sides, snap \in Snapshots : onLiquidation(sym, side, snap)
  \/ \E h \in DOMAIN liq : onLiquidationAfterLog(h)
  \/ \E h \in DOMAIN liq : onLiquidationAfterPause(h)
  \/ \E h \in DOMAIN liq : enterTradeAfterInsert(h)
  \/ positionMonitor
  \/ \E x \in DOMAIN exits : exitTradeAfterUpdate(x)
  \/ \E x \in DOMAIN exits : exitTradeAfterMetrics(x)

\* the steps only live trading takes: the exchange answers
NextLive ==
  \/ \E h \in DOMAIN liq, ok \in BOOLEAN : enterTradeAfterOrder(h, ok)
  \/ \E x \in DOMAIN exits, outcome \in {"throw", "none", "found"} : exitTradeAfterPositions(x, outcome)
  \/ \E x \in DOMAIN exits, ok \in BOOLEAN : exitTradeAfterOrder(x, ok)

NextBot == NextPaper \/ NextLive

NextOperator ==
  \/ routePause
  \/ routePauseUpdate
  \/ routeResume
  \/ routeResumeUpdate
  \/ routeFlatten
  \/ routeFlattenUpdate

NextMode ==
  \/ \E mode \in {"paper", "live"} : routeTradingMode(mode)
  \/ routeTradingModeUpdate
  \/ pollTradingMode

NextOps == NextPaper \/ NextOperator

\* Config of the deployments checked: the tightest limits, and limits of two
TightConfig == [maxTradesPerDay |-> 1, maxConsecutiveLosses |-> 1]
DayConfig == [maxTradesPerDay |-> 2, maxConsecutiveLosses |-> 2]

\* the bot alone, paper or live, liquidations handled concurrently, one exit at a time
Spec == InitOf(BOOLEAN, MaxHandlers, 1, TightConfig) /\ [][NextBot]_vars

\* the bot alone over a longer day, one liquidation and one exit at a time
SpecDay == InitOf(BOOLEAN, 1, 1, DayConfig) /\ [][NextBot]_vars

\* the bot alone, the monitor's interval firing again while an exit is in flight
SpecMonitor == InitOf(BOOLEAN, 1, MaxExits, TightConfig) /\ [][NextBot]_vars

\* The clock runs, the monitor's interval keeps firing (setInterval,
\* part_006:291) and every awaited call of an exit returns; the venue does not
\* fail the exit for ever: again and again getPositions answers and the exit
\* order is filled.
FairExit ==
  /\ WF_vars(Tick)
  /\ WF_vars(positionMonitor)
  /\ \A x \in 1..1 :
       /\ WF_vars(exitTradeAfterUpdate(x))
       /\ WF_vars(exitTradeAfterMetrics(x))
       /\ SF_vars(exitTradeAfterPositions(x, "none") \/ exitTradeAfterPositions(x, "found"))
       /\ SF_vars(exitTradeAfterOrder(x, TRUE))

\* the bot alone, one liquidation and one exit at a time, under FairExit
SpecFair == InitOf(BOOLEAN, 1, 1, TightConfig) /\ [][NextBot]_vars /\ FairExit

\* a paper bot whose gate reads the spread from the book tickers of the feed
NextBook ==
  \/ NextPaper
  \/ \E sym \in Symbols, spread \in BookSpreads, p \in Prices :
        handleMessageBookTicker(sym, spread, p)

SpecBook ==
  InitObserving({FALSE}, 1, 1, TightConfig, Unobserved, NoTicker, UnobservedWindow) /\ [][NextBook]_vars

\* the gate of a paper bot that takes the volume multiple from the trades of the feed
NextVolume ==
  \/ \E sym \in Symbols, v \in Notionals : onTrade(sym, v)
  \/ \E sym \in Symbols, side \in Sides, snap \in Snapshots : onLiquidation(sym, side, snap)

SpecVolume ==
  InitObserving({FALSE}, 1, 1, TightConfig, Unobserved, UnobservedBook, << >>) /\ [][NextVolume]_vars

\* the paper bot and the operator at the dashboard
SpecOps == InitOf({FALSE}, 1, 1, TightConfig) /\ [][NextOps]_vars

\* a paper bot whose database can fail the insert of a Market Event
NextFaulty ==
  \/ \E sym \in Symbols, side \in Sides, snap \in Snapshots : onLiquidationLogFails(sym, side, snap)
  \/ \E h \in DOMAIN liq, fatal \in BOOLEAN : onLiquidationRejected(h, fatal)

SpecFaulty == InitOf({FALSE}, 1, 1, TightConfig) /\ [][NextPaper \/ NextFaulty]_vars

\* the bot while the dashboard switches the trading mode
SpecMode == InitOf(BOOLEAN, 1, 1, TightConfig) /\ [][NextBot \/ NextMode]_vars

\* a live bot whose exits can fail, the failures counted
SpecExit == InitWith({TRUE}, 1, 1, TightConfig, 0) /\ [][NextBot]_vars

\* a live bot whose store can refuse the trade row of an entry
NextStore == \E h \in DOMAIN liq : enterTradeInsertFails(h)

SpecStore == InitOf({TRUE}, 1, 1, TightConfig) /\ [][NextBot \/ NextStore]_vars

\* a termination signal reaches the bot
NextSignal ==
  \/ signalReceived
  \/ \E ok \in BOOLEAN, fatal \in BOOLEAN : closeAllPositionsReturns(ok, fatal)
  \/ flattenPause
  \/ processExit

SpecShutdown == InitOf(BOOLEAN, 1, 1, TightConfig) /\ [][NextBot \/ NextSignal]_vars

\* the dashboard's configuration store
NextConfig ==
  \E r \in 1..MaxPublishers :
    \/ \E f \in FewForms : publishStart(r, f)
    \/ publishSelect(r)
    \/ publishWrite(r)

SpecConfig == InitOf({FALSE}, 1, 1, TightConfig) /\ [][NextConfig]_vars

\* publishes of every body, one after the other
NextPublish ==
  \/ \E f \in Forms : publishStart(1, f)
  \/ publishSelect(1)
  \/ publishWrite(1)

SpecPublish == InitOf({FALSE}, 1, 1, TightConfig) /\ [][NextPublish]_vars

\* the feed socket of a paper bot
NextFeed ==
  \/ wsClose
  \/ reconnectTimerTick
  \/ reconnectAttempt
  \/ wsOpen
  \/ wsError

SpecFeed == InitOf({FALSE}, 1, 1, TightConfig) /\ [][NextFeed]_vars

\* the feed object with a caller that disconnects it and lives on
NextDisconnect == NextFeed \/ disconnect

SpecDisconnect == InitOf({FALSE}, 1, 1, TightConfig) /\ [][NextDisconnect]_vars

\* the state in which main() awaits its first ws.connect()
InitBoot ==
  /\ now = 0
  /\ prices = [s \in Symbols |-> NoPrice]
  /\ isPaused = FALSE
  /\ isLive = FALSE
  /\ openTrade = NoTrade
  /\ symbolCooldowns = [s \in Symbols |-> 0]
  /\ todayPnl = 0
  /\ todayTradeCount = 0
  /\ consecutiveLosses = 0
  /\ status = "BOOTING"
  /\ dbMode = ModeOf(isLive)
  /\ tradingMode = ModeOf(isLive)
  /\ trades = << >>
  /\ events = << >>
  /\ liq = [h \in 1..1 |-> LiqIdle]
  /\ exits = [x \in 1..1 |-> ExitIdle]
  /\ config = TightConfig
  /\ riskPausedAt = -1
  /\ proc = Booting
  /\ response = "none"
  /\ resumePc = "idle"
  /\ pausePc = "idle"
  /\ flattenPc = "idle"
  /\ repeated = {}
  /\ modeRequest = ModeIdle
  /\ isConnected = FALSE
  /\ reconnectAttempts = 0
  /\ feedPc = "connecting"
  /\ delay = 0
  /\ waited = 0
  /\ disconnectCalled = FALSE
  /\ configRows = << >>
  /\ publish = [r \in 1..MaxPublishers |-> PublishIdle]
  /\ published = << >>
  /\ publishAnswer = NoAnswer
  /\ venuePos = 0
  /\ exitFailures = Unobserved
  /\ bookTickers = [s \in Symbols |-> UnobservedBook]
  /\ recentVolumes = [s \in Symbols |-> UnobservedWindow]

\* the process from its first ws.connect() to the started strategy; timers fire
\* and a resolved await goes on, the network owes nothing
NextBoot == NextFeed \/ strategyStart

FairBoot ==
  /\ WF_vars(reconnectTimerTick)
  /\ WF_vars(reconnectAttempt)
  /\ WF_vars(strategyStart)

SpecBoot == InitBoot /\ [][NextBoot]_vars /\ FairBoot

\* ---- properties ---------------------------------------------------------------------
OpenRows == {i \in DOMAIN trades : trades[i].isOpen}
Paused == status \in {"PAUSED_MANUAL", "PAUSED_RISK_LIMIT"}
\* a Market Event is recorded in this step
Recorded == Len(events') = Len(events) + 1
LastEvent == events[Len(events)]
FiveFlags(e) == e.liqSizeOk /\ e.volumeOk /\ e.spreadOk /\ e.momentumOk /\ e.exhaustionOk
\* the limits of the Risk Governor, read off the counters
LossBreach == (IF todayPnl < 0 THEN 0 - todayPnl ELSE 0) >= dailyMaxLossBps * equity * ((PriceScale * QtyScale) \div BpsScale)
StreakBreach == consecutiveLosses >= config.maxConsecutiveLosses
CountBreach == todayTradeCount >= config.maxTradesPerDay
PauseTicks == pauseAfterConsecutiveLossesSeconds * TicksPerSec
CooldownTicks == symbolCooldownSeconds * TicksPerSec

\* C1: at most one position is open in every reachable state, whatever the
\* interleaving of liquidation handlers and monitor ticks.
C1_SinglePosition == Cardinality(OpenRows) <= 1

\* C2: no Trade Record is created while the bot state is PAUSED_MANUAL or
\* PAUSED_RISK_LIMIT, including after a pause through the control endpoint.
C2_NoEntryWhilePaused == [][Len(trades') > Len(trades) => ~Paused]_vars

\* C3: once the state has been PAUSED_RISK_LIMIT it is not RUNNING again through
\* operator commands (the program has no day rollover and no timed expiry, so
\* after a risk pause the state is never RUNNING).
C3_NoOperatorResume == riskPausedAt # -1 => status # "RUNNING"

\* C4: every Market Event recorded has passed = TRUE exactly when its five
\* quality flags are true and the trade-count, loss-streak and daily-loss
\* limits are all satisfied at the evaluation; recorded events never change.
C4_PassedIffAllOk ==
  [][ /\ Len(events') >= Len(events)
      /\ \A i \in DOMAIN events : events'[i] = events[i]
      /\ Len(events') > Len(events) =>
            /\ Recorded
            /\ LastEvent'.passed <=>
                 (FiveFlags(LastEvent') /\ ~CountBreach /\ ~StreakBreach /\ ~LossBreach) ]_vars
C4_Witness ==
  \E i, j \in DOMAIN events :
     /\ events[i].passed
     /\ ~events[j].passed /\ FiveFlags(events[j])

\* C5: no Market Event with passed = TRUE is recorded for a symbol within
\* [t, t + symbol_cooldown_seconds) of a trade entry on that symbol at time t.
C5_CooldownRespected ==
  [][ (Recorded /\ LastEvent'.passed) =>
        \A i \in DOMAIN trades :
           trades[i].symbol = LastEvent'.symbol =>
             ~(trades[i].entryTimestamp <= now /\ now < trades[i].entryTimestamp + CooldownTicks) ]_vars

\* the losing closes since the last close with a non-negative PnL
RECURSIVE TrailingLosses(_)
TrailingLosses(n) ==
  IF n = 0 THEN 0
  ELSE IF trades[n].isOpen THEN TrailingLosses(n - 1)
  ELSE IF trades[n].pnlUsdt >= 0 THEN 0
  ELSE 1 + TrailingLosses(n - 1)

\* C6: every trade close moves consecutive_losses by exactly one step, up by one
\* on a negative PnL and to 0 otherwise: once no exit is in flight the counter is
\* the number of losing closes since the last non-negative one.
C6_LossStreak ==
  (\A x \in DOMAIN exits : exits[x].pc = "idle") =>
     consecutiveLosses = TrailingLosses(Len(trades))

\* C7: a trade closed by TP has pnl_pct >= tp_pct, by SL has pnl_pct <= -sl_pct,
\* by TIME_STOP has duration >= time_stop_seconds and |pnl_pct| < max(tp, sl).
C7_ExitReasonMatchesPnl ==
  \A i \in DOMAIN trades :
     LET t == trades[i] IN
     /\ t.exitReason = "TP" => t.pnlNum * BpsScale >= tpBps * t.entryPrice
     /\ t.exitReason = "SL" => t.pnlNum * BpsScale <= (0 - slBps) * t.entryPrice
     /\ t.exitReason = "TIME_STOP" =>
          /\ t.duration >= timeStopSeconds
          /\ Abs(t.pnlNum) * BpsScale < Max(tpBps, slBps) * t.entryPrice
C7_Witness ==
  \E i, j \in DOMAIN trades :
     /\ trades[i].exitReason = "TP"
     /\ trades[j].exitReason = "TIME_STOP" /\ trades[j].pnlNum # 0

\* C8: a liquidation evaluated while the loss streak or the daily loss is at its
\* limit is recorded with passed = FALSE, its handler opens no trade, writes
\* PAUSED_RISK_LIMIT and then pauses the strategy.
C8_RejectAndPause ==
  [][ /\ (Recorded /\ (StreakBreach \/ LossBreach)) =>
           /\ ~LastEvent'.passed
           /\ trades' = trades
           /\ \E h \in DOMAIN liq :
                 /\ liq[h].pc = "idle" /\ liq'[h].pc = "logged"
                 /\ liq'[h].eventId = Len(events')
                 /\ ~(liq'[h].consecutiveLossOk /\ liq'[h].dailyLossOk)
      /\ \A h \in DOMAIN liq :
           (liq[h].pc = "logged" /\ ~(liq[h].consecutiveLossOk /\ liq[h].dailyLossOk) /\ liq'[h] # liq[h]) =>
              status' = "PAUSED_RISK_LIMIT" /\ trades' = trades /\ liq'[h].pc = "pausing"
      /\ \A h \in DOMAIN liq :
           (liq[h].pc = "pausing" /\ liq'[h] # liq[h]) =>
              isPaused' /\ trades' = trades /\ liq'[h].pc = "idle" ]_vars
C8_Witness ==
  /\ isPaused /\ status = "PAUSED_RISK_LIMIT"
  /\ Len(events) > 0 /\ ~LastEvent.passed /\ FiveFlags(LastEvent)
  /\ OpenRows = {}

\* C9: a liquidation evaluated while only the trade-count limit fails is recorded
\* with passed = FALSE and its handling ends there: no trade is created and the
\* bot state and the pause flag are left as they were.
C9_RejectSignal ==
  [][ (Recorded /\ CountBreach /\ ~StreakBreach /\ ~LossBreach) =>
        /\ ~LastEvent'.passed
        /\ UNCHANGED << trades, status, isPaused, liq >> ]_vars
C9_Witness ==
  /\ Len(events) = 2 /\ ~LastEvent.passed /\ FiveFlags(LastEvent)
  /\ CountBreach /\ ~StreakBreach /\ ~LossBreach
  /\ status = "RUNNING" /\ ~isPaused
  /\ \A h \in DOMAIN liq : liq[h].pc = "idle"

\* C10: once pause_after_consecutive_losses has elapsed since the risk pause,
\* the state is RUNNING again and the strategy accepts liquidations.
C10_PauseExpires ==
  (riskPausedAt # -1 /\ now > riskPausedAt + PauseTicks) => (status = "RUNNING" /\ ~isPaused)

\* the UTC day of a time
DayOf(t) == t \div DayTicks
\* every trade so far was closed on a day before `day` and its close is accounted
SettledBefore(day) ==
  /\ \A x \in DOMAIN exits : exits[x].pc = "idle"
  /\ \A i \in DOMAIN trades :
        /\ ~trades[i].isOpen
        /\ DayOf(trades[i].exitTimestamp) < day

\* C11: the first liquidation evaluated after a UTC day boundary meets a fresh
\* Risk Day: with all earlier trades closed on earlier days, the trade count,
\* the loss streak and the daily loss of the previous day reject nothing, so
\* the event passes exactly when its five quality flags are true.
C11_DayRollover ==
  [][ (Recorded /\ SettledBefore(DayOf(now))) =>
        (LastEvent'.passed <=> FiveFlags(LastEvent')) ]_vars

\* the step in which the dashboard answers a flatten command
FlattenCompletes == flattenPc = "pausing" /\ flattenPc' = "idle"

\* C12: when a flatten command completes, the bot holds no position and no
\* trade row is open, every row is closed with an exit reason (FLATTEN for
\* the row the command closed), the state is PAUSED_MANUAL, and the strategy
\* is paused so that it enters nothing until resume.
C12_FlattenClosesAndPauses ==
  [][ FlattenCompletes =>
        /\ openTrade' = NoTrade
        /\ \A i \in DOMAIN trades' :
              ~trades'[i].isOpen /\ trades'[i].exitReason # "-"
        /\ status' = "PAUSED_MANUAL"
        /\ isPaused' ]_vars

\* the steps in which a pause and an accepted resume write the bot state
PauseWrites == pausePc = "updating" /\ pausePc' = "idle"
ResumeWrites == resumePc = "updating" /\ resumePc' = "idle"

\* C13: every pause leaves the state PAUSED_MANUAL, whatever the state was, so
\* a second pause changes nothing; an accepted resume leaves RUNNING, and a
\* resume that finds RUNNING is answered without a write, so a second resume
\* changes nothing.
C13_PauseResumeIdempotent ==
  [][ /\ PauseWrites => status' = "PAUSED_MANUAL"
      /\ ResumeWrites => status' = "RUNNING"
      /\ (status = "RUNNING" /\ resumePc = "idle") => resumePc' = "idle" ]_vars

\* a pause has been answered directly after a pause, a later resume was
\* accepted, and the resume after it found RUNNING and was answered 400
C13_Witness ==
  /\ repeated = {"pause"}
  /\ status = "RUNNING"
  /\ response = "resume 400"

\* C14: a resume that finds PAUSED_RISK_LIMIT is answered 400 and goes no
\* further: it starts no write of the bot state, and the step that answers it
\* changes neither the state nor the strategy's pause flag.
C14_ResumeRejectedFromRiskPause ==
  [][ (status = "PAUSED_RISK_LIMIT" /\ resumePc = "idle") =>
        /\ resumePc' = "idle"
        /\ response' # response => response' # "resume 200"
        /\ (response' = "resume 400" /\ response # "resume 400") =>
              (status' = status /\ isPaused' = isPaused) ]_vars

C14_Witness ==
  /\ status = "PAUSED_RISK_LIMIT"
  /\ isPaused
  /\ response = "resume 400"
  /\ resumePc = "idle"

\* C15: the k-th reconnect attempt since the last successful open starts when
\* its timer has run reconnectDelay * 2^(k-1) seconds (1, 2, 4, ... s); each
\* close counts one more attempt and every successful open resets the count.
C15_BackoffDoubles ==
  [][ /\ (feedPc = "waiting" /\ feedPc' = "connecting") =>
            waited = reconnectDelay * 2^(reconnectAttempts - 1)
      /\ feedPc' = "waiting" /\ feedPc # "waiting" =>
            reconnectAttempts' = reconnectAttempts + 1
      /\ feedPc' = "open" /\ feedPc # "open" => reconnectAttempts' = 0 ]_vars

\* the fourth attempt in a row is being made, after its 8 s
C15_Witness ==
  /\ feedPc = "connecting"
  /\ reconnectAttempts = 4
  /\ waited = 8

\* C16: once the feed has given up reconnecting, the bot state is ERROR.
C16_FeedUnavailableIsError == feedPc = "stopped" => status = "ERROR"

\* C17: the versions stored by the configuration updates, in the order the
\* updates were stored, strictly increase.
C17_VersionStrictlyIncreases ==
  \A i, j \in DOMAIN published : i < j => published[i] < published[j]

\* C18: when the bot has exited on a termination signal, flatten having
\* completed, the bot state is SHUTDOWN.
C18_ShutdownAfterSignal == proc.pc = "exited" => status = "SHUTDOWN"

\* C20: when the entry order of a live bot fails, the entry is abandoned: the
\* call ends, no trade row is created, no position is held for it, and the
\* day's trade count and the symbol's cooldown stay as they were.
C20_EntryFailsClosed ==
  [][ \A h \in DOMAIN liq :
        (liq[h].pc = "ordering" /\ liq'[h].pc # "ordering" /\ Len(trades') = Len(trades)) =>
          /\ liq'[h] = LiqIdle
          /\ UNCHANGED << trades, openTrade, todayTradeCount, symbolCooldowns >> ]_vars

\* a live bot whose only passing liquidation ended in a failed order
C20_Witness ==
  /\ isLive
  /\ Len(events) > 0
  /\ events[1].passed
  /\ trades = << >>
  /\ openTrade = NoTrade
  /\ todayTradeCount = 0
  /\ \A h \in DOMAIN liq : liq[h].pc = "idle"

\* C19: a liquidation that passes the gate while a price is known is entered
\* even if the write of its Market Event fails: the call goes on to the entry.
C19_WriteFailureStillEnters ==
  [][ \A h \in DOMAIN liq :
        ( /\ liq[h].pc = "logFailed"
          /\ liq'[h].pc # "logFailed"
          /\ liq[h].signalQualityPassed
          /\ riskLimitsPassed(liq[h].dailyLimitOk, liq[h].consecutiveLossOk, liq[h].dailyLossOk)
          /\ prices[liq[h].symbol] # NoPrice )
        => liq'[h].pc \in {"inserted", "ordering"} ]_vars

\* C21: once exitEscalation exits in a row have failed, the bot state is ERROR.
C21_ExitFailuresEscalate == exitFailures >= exitEscalation => status = "ERROR"

\* an entry whose order is filled and whose position is not yet in the slot
EntryInFlight == \E h \in DOMAIN liq : liq[h].pc = "inserted"

\* C22: a position on the venue belongs to the position the bot holds (or to
\* an entry that is completing): when the bot holds none, whatever the mode
\* has been switched to, the venue has been closed out by an opposing order.
C22_LivePositionClosedOnVenue ==
  (openTrade = NoTrade /\ ~EntryInFlight) => venuePos = 0

\* a publish is answered in this step
Answered == publishAnswer' # publishAnswer

\* C23: a publish whose body has a numeric field outside its inclusive bounds is
\* answered with the error and leaves the stored rows, versions included, as they
\* were; a publish whose fields are all inside their bounds is answered with the
\* stored Configuration.
C23_PublishChecksBounds ==
  [][Answered =>
       IF formValid(publishAnswer'.form)
       THEN publishAnswer'.code = "200"
       ELSE publishAnswer'.code = "400" /\ configRows' = configRows]_vars

\* the fields of a Configuration other than its version
ConfigFields == DOMAIN getDefaultConfig \ {"version"}
\* the name the bot's loader gives each field, "" where it has none
loaderField ==
  [leverage                |-> "leverage",
   risk_per_trade_pct      |-> "riskPerTradePct",
   daily_max_loss_pct      |-> "dailyMaxLossPct",
   max_trades_per_day      |-> "maxTradesPerDay",
   max_consecutive_losses  |-> "maxConsecutiveLosses",
   pause_after_consecutive_losses_minutes |-> "",
   liq_window_seconds      |-> "liqWindowSeconds",
   min_liq_usd             |-> "minLiqUsd",
   volume_lookback         |-> "",
   volume_mult             |-> "volumeMult",
   exhaustion_candles      |-> "",
   max_spread_bps          |-> "maxSpreadBps",
   symbol_cooldown_seconds |-> "symbolCooldownSeconds",
   tp_pct                  |-> "tpPct",
   sl_pct                  |-> "slPct",
   time_stop_seconds       |-> "timeStopSeconds",
   entry_fill_timeout_ms   |-> "entryFillTimeoutMs"]
\* the Configuration the last answered publish persisted
Persisted == configUpdate(publishAnswer.form)
DashboardReloads == \A k \in ConfigFields : getConfig[k] = Persisted[k]
LoaderReloads ==
  \A k \in ConfigFields :
    loaderField[k] \in DOMAIN loadConfig /\ loadConfig[loaderField[k]] = Persisted[k]

\* C24: once a Configuration is persisted, the dashboard's reader and the bot's
\* loader both return the persisted value of every field other than version.
C24_ConfigRoundTrip ==
  publishAnswer.code = "200" => DashboardReloads /\ LoaderReloads

\* the monitor hands the open position to exitTrade in this step, slot x
MonitorExits(x) ==
  /\ exits[x].pc = "idle" /\ exits'[x].pc # "idle"
  /\ exits'[x].exitReason \in {"TP", "SL", "TIME_STOP"}
\* the profit and the loss of the open position at the current price
TakeProfitReached ==
  PnlNum(openTrade.side, prices[openTrade.symbol] * PriceScale, openTrade.entryPrice)
     * BpsScale >= tpBps * openTrade.entryPrice
StopLossReached ==
  PnlNum(openTrade.side, prices[openTrade.symbol] * PriceScale, openTrade.entryPrice)
     * BpsScale <= (0 - slBps) * openTrade.entryPrice

\* C25: an exit the monitor starts has reason TP whenever the take profit is
\* reached, SL whenever the stop loss is reached and the take profit is not,
\* whether or not the time stop has elapsed, and TIME_STOP only otherwise.
C25_FirstExitConditionWins ==
  [][\A x \in DOMAIN exits :
       MonitorExits(x) =>
         /\ TakeProfitReached => exits'[x].exitReason = "TP"
         /\ (StopLossReached /\ ~TakeProfitReached) => exits'[x].exitReason = "SL"
         /\ (~StopLossReached /\ ~TakeProfitReached) =>
              /\ exits'[x].exitReason = "TIME_STOP"
              /\ now - openTrade.entryTime >= timeStopSeconds * TicksPerSec]_vars
\* trades closed by TP and by SL after the time stop had elapsed as well
C25_Witness ==
  /\ \E i \in DOMAIN trades :
       trades[i].exitReason = "TP" /\ trades[i].duration >= timeStopSeconds
  /\ \E j \in DOMAIN trades :
       trades[j].exitReason = "SL" /\ trades[j].duration >= timeStopSeconds

\* handler h has its entry filled and issues the insert of the trade row in this step
EntryFilled(h) ==
  /\ liq[h].pc # "inserted" /\ liq'[h].pc = "inserted"
  /\ Len(trades') = Len(trades) + 1

\* C26: the row of every trade the gate opens has side LONG if the liquidation's
\* side is SELL and SHORT if it is BUY, and the order that fills a live entry
\* buys one lot for LONG and sells one for SHORT.
C26_EntryAgainstLiquidation ==
  [][\A h \in DOMAIN liq :
       EntryFilled(h) =>
         LET t == trades'[Len(trades')] IN
         /\ liq[h].side = "SELL" => t.side = "LONG"
         /\ liq[h].side = "BUY" => t.side = "SHORT"
         /\ isLive => venuePos' - venuePos = (IF t.side = "LONG" THEN 1 ELSE 0 - 1)]_vars
\* a live entry on a BUY liquidation is filled: the row is SHORT, the venue short
C26_Witness ==
  \E h \in DOMAIN liq :
    /\ liq[h].pc = "inserted" /\ liq[h].side = "BUY" /\ isLive
    /\ trades[liq[h].tradeId].side = "SHORT"
    /\ venuePos < 0

\* C27: a liquidation is evaluated, and its Market Event recorded, only if it
\* arrives while the state is RUNNING, no position is open and its symbol is out
\* of cooldown; any other liquidation leaves no trace.
C27_DroppedSilently ==
  [][Recorded =>
       /\ status = "RUNNING"
       /\ openTrade = NoTrade
       /\ now >= symbolCooldowns[LastEvent'.symbol]]_vars

\* the time stop of the open position falls inside the time the model covers
TimeStopInReach ==
  openTrade # NoTrade /\ openTrade.entryTime + timeStopSeconds * TicksPerSec <= MaxTime

C29_ClosedOnce ==
  [][\A i \in DOMAIN trades : ~trades[i].isOpen => trades'[i] = trades[i]]_vars

\* the gate has no fresh book of the symbol: no ticker, or one older than
\* StaleBookSeconds
BookStale(sym) ==
  \/ bookTickers[sym].state = "none"
  \/ /\ bookTickers[sym].state = "set"
     /\ now - bookTickers[sym].timestamp > StaleBookSeconds * TicksPerSec

\* C30: a liquidation evaluated while the book of its symbol is missing or stale
\* fails the spread check: its Market Event has spreadOk false and is not passed.
C30_StaleBookFailsSpread ==
  [][(Recorded /\ BookStale(LastEvent'.symbol)) =>
        (~LastEvent'.spreadOk /\ ~LastEvent'.passed)]_vars

\* C31: the size of a position is the quantity executed at entry: the realized
\* PnL of every closed trade is computed on the quantity its row records, in
\* either mode and for every exit reason.
C31_SizeFixedAtEntry ==
  \A i \in DOMAIN trades :
    ~trades[i].isOpen => trades[i].pnlUsdt = trades[i].quantity * trades[i].pnlNum

\* C32: a volume window never holds more than volumeWindowSize samples; a sample
\* that arrives is added at the end, after the samples already held in their
\* order, and only the oldest sample leaves, when the window is full.
C32_WindowKeepsLatest ==
  [][\A s \in Symbols :
       LET old == recentVolumes[s]
           new == recentVolumes'[s] IN
       new # old =>
         /\ Len(new) <= volumeWindowSize
         /\ IF Len(old) < volumeWindowSize
            THEN Len(new) = Len(old) + 1 /\ SubSeq(new, 1, Len(old)) = old
            ELSE Len(new) = Len(old) /\ SubSeq(new, 1, Len(old) - 1) = Tail(old)]_vars
\* a full window whose oldest sample differs from the ones that arrived after it
C32_Witness ==
  \E s \in Symbols : recentVolumes[s] = << 1, 4, 4 >>

\* C39: the volume multiple is 0 for an empty window and exactly 1 while the
\* window holds no more samples than the recent volume is taken over; a
\* liquidation evaluated then has volumeOk false and is not passed.
C39_VolumeGateNeedsHistory ==
  [][/\ \A s \in Symbols :
          /\ Len(recentVolumes[s]) = 0 => volumeMultValueX100(s) = 0
          /\ (Len(recentVolumes[s]) >= 1 /\ Len(recentVolumes[s]) <= recentSamples)
                => volumeMultValueX100(s) = 100
     /\ (Recorded /\ Len(recentVolumes[LastEvent'.symbol]) <= recentSamples)
          => (~LastEvent'.volumeOk /\ ~LastEvent'.passed)]_vars
\* a liquidation that meets every other criterion was evaluated on a window of
\* one sample and failed on volume
C39_Witness ==
  /\ Len(events) > 0
  /\ LastEvent.liqSizeOk /\ LastEvent.spreadOk /\ LastEvent.momentumOk /\ LastEvent.exhaustionOk
  /\ ~LastEvent.volumeOk /\ ~LastEvent.passed
  /\ \E s \in Symbols : Len(recentVolumes[s]) = 1

\* the trades closed so far at a gain or at no loss, and at a loss
ClosedWins == {i \in DOMAIN trades : ~trades[i].isOpen /\ trades[i].pnlUsdt >= 0}
ClosedLosses == {i \in DOMAIN trades : ~trades[i].isOpen /\ trades[i].pnlUsdt < 0}
\* no exit is in flight: the metrics row is the one the last close wrote
ExitsSettled == \A x \in DOMAIN exits : exits[x].pc = "idle"

\* C33: within the first day, once the closes so far are settled, the win count
\* of the metrics row is the number of trades closed without a loss and its
\* loss count the number closed at a loss.
C33_WinLossCountsCumulative ==
  (now < DayTicks /\ ExitsSettled) =>
     /\ todayWinCount = Cardinality(ClosedWins)
     /\ todayLossCount = Cardinality(ClosedLosses)

\* C34: the number of trades entered in the day never exceeds the configured
\* maximum, whatever the interleaving of the liquidation handlers.
C34_TradeCountWithinDailyMax == todayTradeCount <= config.maxTradesPerDay

\* the entry of handler h ends in this step after its market order was filled
FilledEntryEnds(h) ==
  /\ liq'[h].pc = "idle"
  /\ \/ liq[h].pc = "inserted"
     \/ liq[h].pc = "ordering" /\ venuePos' # venuePos

\* C35: in live mode, when an entry whose market order was filled on the venue
\* ends, the strategy holds an open position for its symbol, also when the
\* write of the trade row failed.
C35_FilledEntryIsTracked ==
  [][\A h \in DOMAIN liq :
       (isLive /\ FilledEntryEnds(h)) =>
          (openTrade' # NoTrade /\ openTrade'.symbol = liq[h].symbol)]_vars

\* the first connection attempt failed and a later one opened the socket
ReconnectedWhileBooting == proc = Booting /\ feedPc = "open"

\* C36: when the first connection attempt of the feed fails and a reconnect
\* within the attempt ceiling opens the socket, the bot eventually leaves
\* BOOTING and runs with a started strategy, unless the process ends first.
C36_BootSurvivesFirstFailure ==
  ReconnectedWhileBooting ~> ((status = "RUNNING" /\ proc = Running) \/ ~Alive)

\* C37: once disconnect() has been called on the feed, no step arms a
\* reconnect timer and no step opens a new connection.
C37_DisconnectIsFinal ==
  [][disconnectCalled =>
       /\ ~(feedPc' = "waiting" /\ feedPc # "waiting")
       /\ ~(feedPc' = "connecting" /\ feedPc # "connecting")]_vars

\* the trading-mode request writes the row in this step
ModeWrites == modeRequest.pc = "read" /\ modeRequest'.pc = "idle"

\* C38: the writers of the bot-state row keep each other's updates: the write
\* of a trading-mode request leaves the status of the row as the bot set it,
\* and a write of the status by the bot leaves the trading mode of the row as
\* the operator set it.
C38_BotStateWritesKeepUpdates ==
  [][ /\ ModeWrites => status' = status
      /\ (status' # status /\ ~ModeWrites) => dbMode' = dbMode ]_vars

====
